---- MODULE Spec2Model ----
(***************************************************************************)
(* Quantitative risk and valuation engine of the stock research agent:     *)
(* src/tools/risk_analysis.py and src/tools/valuation.py.                  *)
(*                                                                         *)
(* Numbers.  A number is a tuple <<n, d>>: the rational n/d with d > 0,    *)
(* kept in lowest terms.  <<0, 0>> is NaN, <<1, 0>> and <<-1, 0>> are the  *)
(* infinities, and the empty tuple <<>> is Python's None (JSON null).      *)
(* Arithmetic is exact: the rounding of IEEE doubles is not modelled.      *)
(***************************************************************************)
EXTENDS Integers, Sequences, FiniteSets, TLC

VARIABLES
    hist,       \* the price history the data collaborator serves (ticker.history)
    down,       \* TRUE: the data collaborator raises on every request
    info,       \* the subject's fundamentals snapshot (ticker.info)
    symbol,     \* the symbol the caller asks about
    peerInfo,   \* fundamentals snapshot of every symbol of the taxonomy
    fetched,    \* the symbols whose ticker.info can be retrieved
    rng,        \* state of numpy's global generator (np.random)
    calls,      \* the component calls made so far, each with its returned payload
    thr,        \* the calculate_var invocations running concurrently
    crew        \* the research crew: its task list and the tasks it has run

vars == <<hist, down, info, symbol, peerInfo, fetched, rng, calls, thr, crew>>

----------------------------------------------------------------------------
(* Numbers *)

Null == <<>>
NaN == <<0, 0>>
PosInf == <<1, 0>>
NegInf == <<-1, 0>>

Abs(x) == IF x < 0 THEN -x ELSE x

RECURSIVE GCD(_, _)
GCD(a, b) == IF b = 0 THEN a ELSE GCD(b, a % b)

\* n/d as a number; x/0 is an infinity or NaN as in IEEE arithmetic.
Q(n, d) ==
    IF d = 0 THEN (IF n > 0 THEN PosInf ELSE IF n < 0 THEN NegInf ELSE NaN)
    ELSE LET g == GCD(Abs(n), Abs(d))
             s == IF d < 0 THEN -1 ELSE 1
         IN  <<(s * n) \div g, (s * d) \div g>>

R(n) == <<n, 1>>

IsNull(x) == x = Null
IsNaN(x) == x = NaN
IsInf(x) == x = PosInf \/ x = NegInf
IsFinite(x) == ~IsNull(x) /\ x[2] # 0

\* Arithmetic; a NaN or an infinity in an operand gives NaN (the engine
\* never computes with an infinity that it reports).
\* (the sum is taken over the least common denominator)
RAdd(a, b) == IF IsFinite(a) /\ IsFinite(b)
              THEN LET g == GCD(a[2], b[2])
                   IN  Q(a[1] * (b[2] \div g) + b[1] * (a[2] \div g),
                         a[2] * (b[2] \div g))
              ELSE NaN
RNeg(a) == IF IsFinite(a) THEN <<-a[1], a[2]>> ELSE NaN
RSub(a, b) == RAdd(a, RNeg(b))
\* (common factors are cancelled before the product is formed)
RMul(a, b) == IF IsFinite(a) /\ IsFinite(b)
              THEN LET g == GCD(Abs(a[1]), b[2])
                       h == GCD(Abs(b[1]), a[2])
                   IN  Q((a[1] \div g) * (b[1] \div h), (a[2] \div h) * (b[2] \div g))
              ELSE NaN
RDiv(a, b) == IF IsFinite(a) /\ IsFinite(b)
              THEN IF b[1] = 0 THEN Q(a[1], 0)
                   ELSE RMul(a, IF b[1] < 0 THEN <<-b[2], -b[1]>> ELSE <<b[2], b[1]>>)
              ELSE NaN

\* Comparisons; every comparison with NaN is false.
RLt(a, b) == /\ ~IsNaN(a) /\ ~IsNaN(b)
             /\ IF IsFinite(a) /\ IsFinite(b) THEN a[1] * b[2] < b[1] * a[2]
                ELSE IF IsFinite(a) THEN b = PosInf
                ELSE IF IsFinite(b) THEN a = NegInf
                ELSE a = NegInf /\ b = PosInf
RGt(a, b) == RLt(b, a)
REq(a, b) == ~IsNaN(a) /\ ~IsNaN(b) /\ a = b
RLe(a, b) == RLt(a, b) \/ REq(a, b)
RGe(a, b) == RLe(b, a)

\* An assignment `name = value`: the value is computed once and F reads it
\* under its name.
Bind(value, F(_)) == F(value)

\* Python truthiness of an optional number: None and 0 are false, NaN is true.
Truthy(x) == ~IsNull(x) /\ x # R(0)

RECURSIVE SumRange(_, _, _)
\* s[lo] + ... + s[hi]
SumRange(s, lo, hi) ==
    IF lo > hi THEN R(0)
    ELSE IF lo = hi THEN s[lo]
    ELSE LET mid == (lo + hi) \div 2
         IN  RAdd(SumRange(s, lo, mid), SumRange(s, mid + 1, hi))
RSum(s) == SumRange(s, 1, Len(s))
RMean(s) == IF Len(s) = 0 THEN NaN ELSE RDiv(RSum(s), R(Len(s)))

\* max and min of a non-empty list or series
RECURSIVE MaxRange(_, _, _)
MaxRange(s, lo, hi) ==
    IF lo = hi THEN s[lo]
    ELSE LET mid == (lo + hi) \div 2
             a == MaxRange(s, lo, mid)
             b == MaxRange(s, mid + 1, hi)
         IN  IF RGt(b, a) THEN b ELSE a
RMax(s) == MaxRange(s, 1, Len(s))
RECURSIVE MinRange(_, _, _)
MinRange(s, lo, hi) ==
    IF lo = hi THEN s[lo]
    ELSE LET mid == (lo + hi) \div 2
             a == MinRange(s, lo, mid)
             b == MinRange(s, mid + 1, hi)
         IN  IF RLt(b, a) THEN b ELSE a
RMin(s) == MinRange(s, 1, Len(s))

\* [x for x in s if x > 0]
KeepPositive(s) == SelectSeq(s, LAMBDA x : RGt(x, R(0)))

----------------------------------------------------------------------------
(* Output boundary *)

\* _sanitize on a number: NaN and the infinities become None.
_sanitize(x) == IF IsNaN(x) \/ IsInf(x) THEN Null ELSE x

\* The uniform failure payload.
Failure_Unflagged(msg) == [error |-> msg]
Failure(msg) == [error |-> msg, DATA_UNAVAILABLE |-> TRUE]
FailureMsg(msg, note) == [error |-> msg, DATA_UNAVAILABLE |-> TRUE, message |-> note]

IsFailure(p) == "error" \in DOMAIN p
IsSuccess(p) == ~IsFailure(p)

----------------------------------------------------------------------------
(* Price histories *)

Bar(h, l, c) == [high |-> h, low |-> l, close |-> c]

\* n copies of one bar.
Flat(n, b) == [i \in 1..n |-> b]
\* A history with the bar `pos` places from its end replaced.
WithBar(hs, pos, b) ==
    [i \in 1..Len(hs) |-> IF i = Len(hs) - pos + 1 THEN b ELSE hs[i]]
\* n bars repeating a pattern.
Periodic(n, pattern) == [i \in 1..n |-> pattern[((i - 1) % Len(pattern)) + 1]]

\* `hist.empty or len(hist) < min_bars`
TooShort_EmptyOnly(hs, min_bars) == Len(hs) = 0
TooShort(hs, min_bars) == Len(hs) = 0 \/ Len(hs) < min_bars

\* The last k elements of a series (all of it when it is shorter): s.iloc[-k:]
LastK(s, k) == IF Len(s) <= k THEN s ELSE SubSeq(s, Len(s) - k + 1, Len(s))

Closes(hs) == SubSeq([i \in 1..Len(hs) |-> R(hs[i].close)], 1, Len(hs))
Lows(hs) == SubSeq([i \in 1..Len(hs) |-> R(hs[i].low)], 1, Len(hs))

\* hist['Close'].pct_change().dropna()
Returns(hs) ==
    LET n == IF Len(hs) = 0 THEN 0 ELSE Len(hs) - 1
    IN  SubSeq([i \in 1..n |-> RSub(RDiv(R(hs[i + 1].close), R(hs[i].close)), R(1))],
               1, n)

----------------------------------------------------------------------------
(* Roots.  A standard deviation is the square root of a rational: the tuple *)
(* <<s, n, d>> is s * sqrt(n/d) with s in {-1, 0, 1}; NaN stays <<0, 0>>.   *)

Root(sgn, q) ==
    IF ~IsFinite(q) THEN NaN
    ELSE IF q[1] = 0 \/ sgn = 0 THEN <<0, 0, 1>>
    ELSE <<sgn, q[1], q[2]>>
RootSign(x) == x[1]
RootSquare(x) == <<x[2], x[3]>>
\* x > k and x < k for a root x and an integer k >= 0
RootGt(x, k) == ~IsNaN(x) /\ RootSign(x) = 1 /\ RGt(RootSquare(x), R(k * k))
RootLt(x, k) == ~IsNaN(x) /\ (RootSign(x) < 1 \/ RLt(RootSquare(x), R(k * k)))
RootTruthy(x) == ~IsNull(x) /\ (IsNaN(x) \/ RootSign(x) # 0)

Sign(q) == IF q[1] > 0 THEN 1 ELSE IF q[1] < 0 THEN -1 ELSE 0

SumSq(s) == RSum(SubSeq([i \in 1..Len(s) |-> RMul(s[i], s[i])], 1, Len(s)))

\* The sample variance (ddof = 1) behind Series.std(): NaN below two values.
Variance(s) ==
    LET k == Len(s)
    IN  IF k < 2 THEN NaN
        ELSE RDiv(RSub(RMul(R(k), SumSq(s)), RMul(RSum(s), RSum(s))),
                  R(k * (k - 1)))

\* returns[returns < 0]
KeepNegative(s) == SelectSeq(s, LAMBDA x : RLt(x, R(0)))

TradingDays == 252

----------------------------------------------------------------------------
(* calculate_stop_loss_levels *)

StopLossMinBars == 50
AtrWindow == 14
Low3mBars == 63
Low1mBars == 21

\* max(high - low, |high - close.shift()|, |low - close.shift()|); the first
\* bar has no previous close and the row maximum skips the missing cells.
true_range(hs, i) ==
    LET hl == hs[i].high - hs[i].low
    IN  IF i = 1 THEN hl
        ELSE LET hc == Abs(hs[i].high - hs[i - 1].close)
                 lc == Abs(hs[i].low - hs[i - 1].close)
                 m == IF hc > lc THEN hc ELSE lc
             IN  IF hl > m THEN hl ELSE m

RECURSIVE TrSum(_, _, _)
\* true_range summed over the bars from..to
TrSum(hs, from, to) ==
    IF from > to THEN 0 ELSE true_range(hs, to) + TrSum(hs, from, to - 1)

\* true_range.rolling(window=14).mean().iloc[-1]
atr(hs) ==
    IF Len(hs) < AtrWindow THEN NaN
    ELSE Q(TrSum(hs, Len(hs) - AtrWindow + 1, Len(hs)), AtrWindow)

current_price(hs) == R(hs[Len(hs)].close)

conservative_sl_1x(hs) == RSub(current_price(hs), RMul(R(1), atr(hs)))
conservative_sl(hs) == RSub(current_price(hs), RMul(R(3), atr(hs)))
moderate_sl(hs) == RSub(current_price(hs), RMul(R(2), atr(hs)))
aggressive_sl_Above(hs) == RAdd(current_price(hs), RMul(Q(3, 2), atr(hs)))
aggressive_sl(hs) == RSub(current_price(hs), RMul(Q(3, 2), atr(hs)))

recent_low_3m(hs) == RMin(LastK(Lows(hs), Low3mBars))
\* the 1-month low taken over the 3-month window
recent_low_1m_Quarter(hs) == RMin(LastK(Lows(hs), Low3mBars))
recent_low_1m(hs) == RMin(LastK(Lows(hs), Low1mBars))

conservative_stops(hs) == KeepPositive(<<conservative_sl(hs), recent_low_3m(hs)>>)
moderate_stops(hs) == KeepPositive(<<moderate_sl(hs), recent_low_1m(hs)>>)

\* ((stop - current_price) / current_price) * 100
pct_below(stop, price) == RMul(RDiv(RSub(stop, price), price), R(100))

StopLevel(stop, price, text) ==
    [price |-> _sanitize(stop), pct_below |-> _sanitize(pct_below(stop, price)),
     description |-> text]

calculate_stop_loss_levels(sym, hs, isDown) ==
    IF isDown THEN Failure("Stop-loss calculation error")
    ELSE IF TooShort(hs, StopLossMinBars)
    THEN Failure("Insufficient data for stop-loss calculation")
    \* max() of an empty list raises ValueError
    ELSE IF conservative_stops(hs) = <<>> \/ moderate_stops(hs) = <<>>
    THEN Failure("Stop-loss calculation error")
    ELSE LET price == current_price(hs)
             final_conservative == RMax(conservative_stops(hs))
             final_moderate == RMax(moderate_stops(hs))
         IN  [symbol |-> sym,
              current_price |-> price,
              atr |-> _sanitize(atr(hs)),
              stop_loss_levels |->
                 [conservative |-> StopLevel(final_conservative, price,
                                             "Based on 3x ATR and 3-month low"),
                  moderate |-> StopLevel(final_moderate, price,
                                         "Based on 2x ATR and 1-month low"),
                  aggressive |-> StopLevel(aggressive_sl(hs), price,
                                           "Based on 1.5x ATR")],
              support_levels |->
                 ("3_month_low" :> recent_low_3m(hs))
                 @@ ("1_month_low" :> recent_low_1m(hs)),
              recommendation |->
                 "Use conservative stop for long-term positions, moderate for swing trades"]


----------------------------------------------------------------------------
(* analyze_downside_metrics *)

DownsideMinBars == 100
RiskFreePct == 7

\* The index label of bar i as a day number, and its rendering by strftime.
\* Bars are trading days: five in a row, then two days without a bar.
DateOf(i) == i + 2 * ((i + 3) \div 5)
strftime(i) == ToString(DateOf(i))
\* the bars between the two dates
recovery_days_Bars(recovery_bar, trough_bar) == recovery_bar - trough_bar
\* (recovery_date - max_dd_date).days
recovery_days(recovery_bar, trough_bar) == DateOf(recovery_bar) - DateOf(trough_bar)

RECURSIVE ProdRange(_, _, _)
\* (1 + rs[lo]) * ... * (1 + rs[hi])
ProdRange(rs, lo, hi) ==
    IF lo > hi THEN R(1)
    ELSE IF lo = hi THEN RAdd(R(1), rs[lo])
    ELSE LET mid == (lo + hi) \div 2
         IN  RMul(ProdRange(rs, lo, mid), ProdRange(rs, mid + 1, hi))
\* (1 + returns).cumprod()
cumprod(rs) == SubSeq([i \in 1..Len(rs) |-> ProdRange(rs, 1, i)], 1, Len(rs))
\* the series itself in place of its running maximum
cummax_Pointwise(cs) == cs
\* cumulative.cummax()
cummax(cs) == SubSeq([i \in 1..Len(cs) |-> MaxRange(cs, 1, i)], 1, Len(cs))

\* Series.idxmin() and Series.idxmax(): the first position of the extreme.
idxmin(s) == LET m == RMin(s)
             IN  CHOOSE i \in 1..Len(s) :
                    /\ REq(s[i], m)
                    /\ \A j \in 1..(i - 1) : ~REq(s[j], m)
idxmax(s) == LET m == RMax(s)
             IN  CHOOSE i \in 1..Len(s) :
                    /\ REq(s[i], m)
                    /\ \A j \in 1..(i - 1) : ~REq(s[j], m)

\* All of the analysis that follows the length check.  Position i of the
\* return series carries the date of bar i + 1.
DownsideAnalysis(hs) ==
    Bind(Closes(hs), LAMBDA prices :
    Bind(Returns(hs), LAMBDA returns :
    Bind(cumprod(returns), LAMBDA cumulative :
    Bind(cummax(cumulative), LAMBDA running_max :
    Bind(SubSeq([i \in 1..Len(returns) |->
                    RDiv(RSub(cumulative[i], running_max[i]), running_max[i])],
                1, Len(returns)), LAMBDA drawdown :
    Bind(idxmin(drawdown), LAMBDA max_dd_pos :
    Bind(idxmax(SubSeq(running_max, 1, max_dd_pos)), LAMBDA peak_pos :
    Bind(prices[peak_pos + 1], LAMBDA peak_price :
    \* future_prices[future_prices >= peak_price].index
    Bind({j \in (max_dd_pos + 1)..Len(hs) : RGe(prices[j], peak_price)},
         LAMBDA recovery_idx :
    Bind(RMul(Variance(KeepNegative(returns)), R(TradingDays * 100 * 100)),
         LAMBDA downside_var :
    Bind(Root(1, downside_var), LAMBDA downside_deviation :
    Bind(RSub(RMul(RMean(returns), R(TradingDays)), Q(RiskFreePct, 100)),
         LAMBDA excess_return :
    Bind(RMax(prices), LAMBDA all_time_high :
        [max_drawdown |-> RMul(drawdown[max_dd_pos], R(100)),
         peak_bar |-> peak_pos + 1,
         trough_bar |-> max_dd_pos + 1,
         recovered |-> recovery_idx # {},
         recovery_bar |->
            IF recovery_idx # {}
            THEN CHOOSE j \in recovery_idx : \A k \in recovery_idx : j <= k
            ELSE 0,
         downside_deviation |-> downside_deviation,
         \* excess_return / (downside_deviation / 100) when the deviation is > 0
         sortino_ratio |->
            IF ~IsNaN(downside_deviation) /\ RootSign(downside_deviation) = 1
            THEN Root(Sign(excess_return),
                      RDiv(RMul(excess_return, excess_return),
                           RDiv(downside_var, R(100 * 100))))
            ELSE Null,
         current_drawdown |->
            RMul(RDiv(RSub(prices[Len(prices)], all_time_high), all_time_high),
                 R(100))])))))))))))))

DrawdownLabel(max_drawdown) ==
    IF RGt(max_drawdown, R(-15)) THEN "Low drawdown risk"
    ELSE IF RGt(max_drawdown, R(-30)) THEN "Moderate drawdown risk"
    ELSE "High drawdown risk"

\* `sortino_ratio and sortino_ratio > k`: None and 0.0 are false.
SortinoLabel(sortino_ratio) ==
    IF RootTruthy(sortino_ratio) /\ RootGt(sortino_ratio, 2)
    THEN "Excellent risk-adjusted returns"
    ELSE IF RootTruthy(sortino_ratio) /\ RootGt(sortino_ratio, 1)
    THEN "Good risk-adjusted returns"
    ELSE IF RootTruthy(sortino_ratio) /\ RootGt(sortino_ratio, 0)
    THEN "Poor risk-adjusted returns"
    ELSE IF RootTruthy(sortino_ratio) THEN "Negative returns"
    ELSE "N/A"

analyze_downside_metrics(sym, hs, isDown) ==
    IF isDown THEN Failure("Downside metrics error")
    ELSE IF TooShort(hs, DownsideMinBars)
    THEN Failure("Insufficient data for drawdown analysis (need 100+ days)")
    ELSE Bind(DownsideAnalysis(hs), LAMBDA a :
             [symbol |-> sym,
              max_drawdown |->
                 [percentage |-> _sanitize(a.max_drawdown),
                  peak_date |-> strftime(a.peak_bar),
                  trough_date |-> strftime(a.trough_bar),
                  recovery_date |-> IF a.recovered THEN strftime(a.recovery_bar)
                                    ELSE "Not recovered",
                  recovery_days |-> IF a.recovered
                                    THEN R(recovery_days(a.recovery_bar, a.trough_bar))
                                    ELSE Null],
              current_drawdown |-> _sanitize(a.current_drawdown),
              downside_deviation |-> _sanitize(a.downside_deviation),
              sortino_ratio |-> _sanitize(a.sortino_ratio),
              interpretation |->
                 [max_drawdown |-> DrawdownLabel(a.max_drawdown),
                  sortino |-> SortinoLabel(a.sortino_ratio)]])


----------------------------------------------------------------------------
(* calculate_var *)

VarMinBars == 60
VarMinReturns == 50

\* The number of bootstrap trials drawn by the model (range(1000) in the source).
Trials == 2

\* numpy's global generator, a deterministic function of its state: every
\* draw advances the state, and the state decides the index drawn.
RngMod == 16
RngMul == 5
RngInc == 3
NextRng(s) == (RngMul * s + RngInc) % RngMod
\* the position drawn by state s among len positions: floor(u * len) for u in [0, 1)
DrawIndex(s, len) == ((s * len) \div RngMod) + 1

RECURSIVE Choice(_, _, _)
\* np.random.choice(returns, size=size, replace=True) from generator state s:
\* the sample drawn and the state the generator is left in.
Choice(returns, size, s) ==
    IF size = 0 THEN [sample |-> <<>>, rng |-> s]
    ELSE LET s1 == NextRng(s)
             rest == Choice(returns, size - 1, s1)
         IN  [sample |-> <<returns[DrawIndex(s1, Len(returns))]>> \o rest.sample,
              rng |-> rest.rng]


\* One pass of the bootstrap loop: (1 + sample).prod() - 1
BootstrapTrial(returns, period_days, s) ==
    LET c == Choice(returns, period_days, s)
    IN  [period_return |-> RSub(ProdRange(c.sample, 1, Len(c.sample)), R(1)), rng |-> c.rng]

RECURSIVE Bootstrap(_, _, _, _)
\* The loop `for _ in range(...)`: the period returns of n trials.
Bootstrap(returns, period_days, n, s) ==
    IF n = 0 THEN [period_returns |-> <<>>, rng |-> s]
    ELSE LET t == BootstrapTrial(returns, period_days, s)
             rest == Bootstrap(returns, period_days, n - 1, t.rng)
         IN  [period_returns |-> <<t.period_return>> \o rest.period_returns,
              rng |-> rest.rng]

RECURSIVE Insert(_, _)
Insert(x, sorted) ==
    IF sorted = <<>> THEN <<x>>
    ELSE IF RLe(x, Head(sorted)) THEN <<x>> \o sorted
    ELSE <<Head(sorted)>> \o Insert(x, Tail(sorted))
RECURSIVE Sorted(_)
Sorted(s) == IF s = <<>> THEN <<>> ELSE Insert(Head(s), Sorted(Tail(s)))

\* np.percentile(xs, q) for a rational q in [0, 100], linear interpolation.
percentile(xs, q) ==
    LET ys == Sorted(xs)
        rank == RMul(RDiv(q, R(100)), R(Len(ys) - 1))
        lo == rank[1] \div rank[2]
        frac == RSub(rank, R(lo))
    IN  IF lo + 1 >= Len(ys) THEN ys[Len(ys)]
        ELSE RAdd(ys[lo + 1], RMul(frac, RSub(ys[lo + 2], ys[lo + 1])))

\* A parametric estimate drift + ppf(tail) * sqrt(spread2), kept in closed
\* form: ppf is scipy's inverse normal CDF.
Parametric(drift, tail, spread2) == [drift |-> drift, tail |-> tail, spread2 |-> spread2]

VolatilityLevel(annual_volatility) ==
    IF RootLt(annual_volatility, 20) THEN "Low"
    ELSE IF RootLt(annual_volatility, 35) THEN "Moderate"
    ELSE IF RootLt(annual_volatility, 50) THEN "High"
    ELSE "Very High"

\* The checks made before the estimates: the failure payload returned, or
\* a mark that the data is accepted.
VarRefusal(hs, isDown) ==
    IF isDown THEN Failure("VaR calculation error")
    ELSE IF TooShort(hs, VarMinBars)
    THEN FailureMsg("Insufficient data for VaR calculation (need 60+ days)",
                    "Cannot calculate risk metrics without sufficient history")
    ELSE IF Len(Returns(hs)) < VarMinReturns
    THEN Failure("Insufficient return history")
    ELSE [accepted |-> TRUE]

\* The success payload, given the period returns the bootstrap collected.
\* confidence_level is a rational in (0, 1).
VarPayload(sym, hs, confidence_level, period_days, period_returns) ==
    Bind(Returns(hs), LAMBDA returns :
    Bind(RSub(R(1), confidence_level), LAMBDA tail :
    Bind(Variance(returns), LAMBDA variance :
    Bind(Parametric(RMul(RMul(RMean(returns), R(period_days)), R(100)),
                    tail,
                    RMul(variance, R(period_days * 100 * 100))),
         LAMBDA parametric_var :
    Bind(RMul(percentile(period_returns, RMul(tail, R(100))), R(100)),
         LAMBDA historical_var :
    \* (parametric_var + historical_var) / 2
    Bind(Parametric(RDiv(RAdd(parametric_var.drift, historical_var), R(2)),
                    tail,
                    RDiv(parametric_var.spread2, R(4))),
         LAMBDA avg_var :
    Bind(Root(1, RMul(variance, R(TradingDays * 100 * 100))),
         LAMBDA annual_volatility :
        [symbol |-> sym,
         confidence_level |-> confidence_level,
         period_days |-> period_days,
         var_estimates |->
            [parametric |-> parametric_var,
             historical |-> _sanitize(historical_var),
             average |-> avg_var],
         \* the three figures the sentence is formatted from
         interpretation |-> <<RMul(confidence_level, R(100)), period_days, avg_var>>,
         annual_volatility |-> _sanitize(annual_volatility),
         risk_level |-> VolatilityLevel(annual_volatility)])))))))

\* calculate_var run from generator state s: the payload it returns and
\* the state it leaves the global generator in.
calculate_var(sym, hs, isDown, confidence_level, period_days, s) ==
    IF IsFailure(VarRefusal(hs, isDown))
    THEN [out |-> VarRefusal(hs, isDown), rng |-> s]
    ELSE Bind(Bootstrap(Returns(hs), period_days, Trials, s), LAMBDA b :
             [out |-> VarPayload(sym, hs, confidence_level, period_days,
                                 b.period_returns),
              rng |-> b.rng])


----------------------------------------------------------------------------
(* _safe_json_dumps on a whole payload: Python values as tagged records,  *)
(* JSON text as a sequence of tokens                                      *)

PyFloat(x) == [kind |-> "float", value |-> x, text |-> "", items |-> <<>>]
PyInt(n) == [kind |-> "int", value |-> R(n), text |-> "", items |-> <<>>]
PyStr(t) == [kind |-> "str", value |-> Null, text |-> t, items |-> <<>>]
PyNone == [kind |-> "none", value |-> Null, text |-> "", items |-> <<>>]
\* a dict as the list of its items in insertion order; a list as the list
\* of its members, each under the empty key
Item(k, v) == [key |-> k, val |-> v]
PyDict(kvs) == [kind |-> "dict", value |-> Null, text |-> "", items |-> kvs]
PyList(vs) ==
    [kind |-> "list", value |-> Null, text |-> "",
     items |-> SubSeq([k \in 1..Len(vs) |-> Item("", vs[k])], 1, Len(vs))]

RECURSIVE _sanitize_tree(_)
\* (a sanitizer that looks at the values of the outermost dict only)
_sanitize_tree_Shallow(obj) ==
    IF obj.kind = "dict"
    THEN PyDict(SubSeq([k \in 1..Len(obj.items) |->
                    LET v == obj.items[k].val
                    IN  Item(obj.items[k].key,
                             IF v.kind = "float" /\ (IsNaN(v.value) \/ IsInf(v.value))
                             THEN PyNone ELSE v)], 1, Len(obj.items)))
    ELSE obj
\* _sanitize(obj): a non-finite float becomes None, dicts and lists are
\* rebuilt from their sanitized members, anything else is returned as it is.
_sanitize_tree(obj) ==
    IF obj.kind = "float" /\ (IsNaN(obj.value) \/ IsInf(obj.value)) THEN PyNone
    ELSE IF obj.kind \in {"dict", "list"}
    THEN [obj EXCEPT !.items =
             SubSeq([k \in 1..Len(obj.items) |->
                        Item(obj.items[k].key, _sanitize_tree(obj.items[k].val))],
                    1, Len(obj.items))]
    ELSE obj

\* One token of JSON text
Tok(t, text, v) == [t |-> t, text |-> text, v |-> v]
Punct(c) == Tok("punct", c, Null)
Lit(w) == Tok("lit", w, Null)

RECURSIVE json_dumps(_)
RECURSIVE DumpItems(_, _)
\* the members of a list or dict, comma-separated
DumpItems(items, isDict) ==
    IF items = <<>> THEN <<>>
    ELSE (IF isDict
          THEN <<Tok("str", Head(items).key, Null), Punct(":")>>
               \o json_dumps(Head(items).val)
          ELSE json_dumps(Head(items).val))
         \o (IF Len(items) > 1 THEN <<Punct(",")>> ELSE <<>>)
         \o DumpItems(Tail(items), isDict)
\* json.dumps with its defaults (allow_nan=True): a non-finite float is
\* written as the bare word NaN, Infinity or -Infinity, None as null.
json_dumps(obj) ==
    IF obj.kind = "float"
    THEN IF IsNaN(obj.value) THEN <<Lit("NaN")>>
         ELSE IF obj.value = PosInf THEN <<Lit("Infinity")>>
         ELSE IF obj.value = NegInf THEN <<Lit("-Infinity")>>
         ELSE <<Tok("float", "", obj.value)>>
    ELSE IF obj.kind = "int" THEN <<Tok("int", "", obj.value)>>
    ELSE IF obj.kind = "str" THEN <<Tok("str", obj.text, Null)>>
    ELSE IF obj.kind = "none" THEN <<Lit("null")>>
    ELSE IF obj.kind = "dict"
    THEN <<Punct("{")>> \o DumpItems(obj.items, TRUE) \o <<Punct("}")>>
    ELSE <<Punct("[")>> \o DumpItems(obj.items, FALSE) \o <<Punct("]")>>

\* json.dumps(_sanitize(data))
_safe_json_dumps(data) == json_dumps(_sanitize_tree(data))

----------------------------------------------------------------------------
(* Fundamentals snapshots: ticker.info, every field a number or None *)

InfoFields == {"debtToEquity", "totalDebt", "totalStockholderEquity",
               "interestCoverage", "beta", "currentPrice", "regularMarketPrice",
               "trailingPE", "forwardPE", "priceToBook", "enterpriseToEbitda",
               "returnOnEquity", "profitMargins", "marketCap",
               "trailingEps", "forwardEps", "bookValue"}
NoInfo == [f \in InfoFields |-> Null]

\* Python's `a or b` on optional numbers
Or(a, b) == IF Truthy(a) THEN a ELSE b

----------------------------------------------------------------------------
(* assess_leverage_risk *)

\* `not debt_to_equity`: None and 0 alike
DebtMissing(debt_to_equity) == ~Truthy(debt_to_equity)

\* The debt/equity figure after the fallback to totalDebt / totalStockholderEquity.
DebtToEquity(inf) ==
    IF /\ DebtMissing(inf.debtToEquity)
       /\ Truthy(inf.totalDebt) /\ Truthy(inf.totalStockholderEquity)
       /\ RGt(inf.totalStockholderEquity, R(0))
    THEN RMul(RDiv(inf.totalDebt, inf.totalStockholderEquity), R(100))
    ELSE inf.debtToEquity

LeverageLevel(debt_to_equity) ==
    IF RLt(debt_to_equity, R(50)) THEN "Low"
    ELSE IF RLt(debt_to_equity, R(100)) THEN "Moderate"
    ELSE IF RLt(debt_to_equity, R(200)) THEN "High"
    ELSE "Very High"

LeverageRisk(debt_to_equity) ==
    IF RLt(debt_to_equity, R(50)) THEN "Minimal"
    ELSE IF RLt(debt_to_equity, R(100)) THEN "Manageable"
    ELSE IF RLt(debt_to_equity, R(200)) THEN "Elevated"
    ELSE "Significant distress risk"

CoverageStatus(interest_coverage) ==
    IF Truthy(interest_coverage)
    THEN IF RGt(interest_coverage, R(5)) THEN "Strong - can easily service debt"
         ELSE IF RGt(interest_coverage, Q(5, 2)) THEN "Adequate - comfortable margin"
         ELSE IF RGt(interest_coverage, R(1)) THEN "Weak - tight coverage"
         ELSE "Critical - earnings below interest"
    ELSE "Not available"

LeveragePoints(debt_to_equity) ==
    IF RGt(debt_to_equity, R(200)) THEN 4
    ELSE IF RGt(debt_to_equity, R(100)) THEN 2
    ELSE IF RGt(debt_to_equity, R(50)) THEN 1
    ELSE 0

CoveragePoints(interest_coverage) ==
    IF Truthy(interest_coverage)
    THEN IF RLt(interest_coverage, R(1)) THEN 4
         ELSE IF RLt(interest_coverage, Q(5, 2)) THEN 2
         ELSE IF RLt(interest_coverage, R(5)) THEN 1
         ELSE 0
    ELSE 0

RiskScore(debt_to_equity, interest_coverage) ==
    LET raw == 1 + LeveragePoints(debt_to_equity) + CoveragePoints(interest_coverage)
    IN  IF raw > 10 THEN 10 ELSE raw

RefinancingRisks(debt_to_equity, interest_coverage) ==
    (IF RGt(debt_to_equity, R(150))
     THEN <<"High leverage reduces financing flexibility">> ELSE <<>>)
    \o (IF Truthy(interest_coverage) /\ RLt(interest_coverage, R(2))
        THEN <<"Tight interest coverage - vulnerable to rate hikes">> ELSE <<>>)
    \o (IF ~Truthy(interest_coverage)
        THEN <<"Interest coverage not available - unable to assess">> ELSE <<>>)

LeverageRecommendation(risk_score) ==
    IF risk_score <= 3 THEN "Low leverage risk"
    ELSE IF risk_score <= 6 THEN "Monitor leverage"
    ELSE "High leverage risk - caution advised"

assess_leverage_risk(sym, inf, isDown) ==
    IF isDown THEN Failure("Leverage assessment error")
    ELSE LET debt_to_equity == DebtToEquity(inf)
             interest_coverage == inf.interestCoverage
             risk_score == RiskScore(debt_to_equity, interest_coverage)
         IN  IF DebtMissing(debt_to_equity)
             THEN FailureMsg("Debt metrics not available",
                             "Cannot assess leverage without debt data")
             ELSE [symbol |-> sym,
                   debt_to_equity |-> _sanitize(debt_to_equity),
                   total_debt |-> _sanitize(inf.totalDebt),
                   total_equity |-> _sanitize(inf.totalStockholderEquity),
                   interest_coverage |-> _sanitize(interest_coverage),
                   leverage_assessment |->
                      [level |-> LeverageLevel(debt_to_equity),
                       risk |-> LeverageRisk(debt_to_equity),
                       risk_score |-> risk_score],
                   interest_coverage_status |-> CoverageStatus(interest_coverage),
                   refinancing_risks |->
                      RefinancingRisks(debt_to_equity, interest_coverage),
                   recommendation |-> LeverageRecommendation(risk_score)]


----------------------------------------------------------------------------
(* model_scenario_risks *)

\* <<base, coef, rad>> is base + coef * sqrt(rad): the closed form of a figure
\* that is linear in the annual volatility.  NaN when the volatility is undefined.
Mixed(base, coef, rad) ==
    IF ~IsFinite(rad) \/ ~IsFinite(base) \/ ~IsFinite(coef) THEN NaN
    ELSE <<base, coef, rad>>

RateHikeProbabilityPct == 15
CommodityShockProbabilityPct == 20
DemandShockProbabilityPct == 10
SectorDownturnProbabilityPct == 25
WorstCaseProbabilityPct == 5
SectorDownturnImpact == -12
WorstCaseImpact == -30

\* current_price * (1 + impact_pct / 100)
TargetPrice(price, impact_pct) ==
    RMul(price, RAdd(R(1), RDiv(impact_pct, R(100))))

Scenario_Likelier(description, probabilityPct, impact_logic, impact_pct, price) ==
    [description |-> description,
     probability |-> Q(probabilityPct + 30, 100),
     impact_logic |-> impact_logic,
     estimated_impact_pct |-> _sanitize(impact_pct),
     target_price |-> _sanitize(TargetPrice(price, impact_pct)),
     price_change |-> _sanitize(RSub(TargetPrice(price, impact_pct), price))]
Scenario(description, probabilityPct, impact_logic, impact_pct, price) ==
    [description |-> description,
     probability |-> Q(probabilityPct, 100),
     impact_logic |-> impact_logic,
     estimated_impact_pct |-> _sanitize(impact_pct),
     target_price |-> _sanitize(TargetPrice(price, impact_pct)),
     price_change |-> _sanitize(RSub(TargetPrice(price, impact_pct), price))]

\* The demand shock, whose impact -15 * (1 + (annual_vol - 0.25)) is linear in
\* the volatility sqrt(vol2).
DemandScenario(price, vol2) ==
    LET impact == Mixed(Q(-45, 4), R(-15), vol2)
        change == Mixed(RMul(price, Q(-45, 400)), RMul(price, Q(-15, 100)), vol2)
        target == Mixed(RMul(price, Q(355, 400)), RMul(price, Q(-15, 100)), vol2)
    IN  [description |-> "Revenue falls 15% due to demand slowdown",
         probability |-> Q(DemandShockProbabilityPct, 100),
         impact_logic |-> "Earnings miss cascades to multiple compression",
         estimated_impact_pct |-> _sanitize(impact),
         target_price |-> _sanitize(target),
         price_change |-> _sanitize(change)]

\* info.get('beta', 1.0) or 1.0
Beta(inf) == Or(inf.beta, R(1))

model_scenario_risks(sym, hs, inf, isDown) ==
    IF isDown THEN Failure("Scenario modeling error")
    ELSE IF Len(hs) = 0 THEN Failure("No historical data available")
    ELSE LET price == current_price(hs)
             beta == Beta(inf)
             vol2 == RMul(Variance(Returns(hs)), R(TradingDays))
         IN  [symbol |-> sym,
              current_price |-> price,
              beta |-> _sanitize(beta),
              annual_volatility |-> _sanitize(Root(1, RMul(vol2, R(100 * 100)))),
              scenarios |->
                 [rate_hike |->
                     Scenario("RBI raises repo rate by 100 bps",
                              RateHikeProbabilityPct,
                              "Higher rates compress valuations, reduce consumer demand",
                              RMul(R(-10), beta), price),
                  commodity_shock |->
                     Scenario("Crude oil rises 20% or key input cost surge",
                              CommodityShockProbabilityPct,
                              "Higher input costs squeeze margins, reduce profitability",
                              IF RGt(beta, R(1)) THEN R(-8) ELSE R(-5), price),
                  demand_shock |-> DemandScenario(price, vol2),
                  sector_downturn |->
                     Scenario("Sector-specific headwinds (regulation, competition)",
                              SectorDownturnProbabilityPct,
                              "Sector rotation, bearish sector sentiment",
                              R(SectorDownturnImpact), price)],
              worst_case |->
                 [description |-> "Multiple adverse scenarios compound",
                  probability |-> Q(WorstCaseProbabilityPct, 100),
                  target_price |->
                     _sanitize(TargetPrice(price, R(WorstCaseImpact))),
                  impact_pct |-> R(WorstCaseImpact)],
              interpretation |->
                 "Model shows potential downside under stress conditions"]


----------------------------------------------------------------------------
(* Sector taxonomy (config.SECTORS) and peers *)

SECTORS == [TELECOM |-> <<"BHARTIARTL", "IDEA", "TATACOMM">>]

InSeq(x, s) == \E i \in 1..Len(s) : s[i] = x

\* _get_sector_for_symbol: the sector listing the symbol, "" for None
_get_sector_for_symbol(sym) ==
    IF \E sec \in DOMAIN SECTORS : InSeq(sym, SECTORS[sec])
    THEN CHOOSE sec \in DOMAIN SECTORS : InSeq(sym, SECTORS[sec])
    ELSE ""

RECURSIVE Without(_, _)
Without(s, x) ==
    IF s = <<>> THEN <<>>
    ELSE (IF Head(s) = x THEN <<>> ELSE <<Head(s)>>) \o Without(Tail(s), x)

\* _get_peer_stocks
_get_peer_stocks(sym, max_peers) ==
    IF _get_sector_for_symbol(sym) = "" THEN <<>>
    ELSE LET peers == Without(SECTORS[_get_sector_for_symbol(sym)], sym)
         IN  IF Len(peers) <= max_peers THEN peers ELSE SubSeq(peers, 1, max_peers)

MaxPeers == 5

----------------------------------------------------------------------------
(* get_sector_valuation_multiples *)

\* One row of peer_data
PeerRow(sym, inf) ==
    [symbol |-> sym,
     pe_ratio |-> inf.trailingPE,
     forward_pe |-> inf.forwardPE,
     pb_ratio |-> inf.priceToBook,
     ev_ebitda |-> inf.enterpriseToEbitda,
     roe |-> inf.returnOnEquity,
     profit_margin |-> inf.profitMargins,
     market_cap |-> inf.marketCap]

RECURSIVE PeerData(_, _, _)
\* The fetch loop: a symbol whose ticker.info raises is skipped.
\* infoOf maps each symbol to its snapshot, ok is the set of symbols that answer.
PeerData(syms, infoOf, ok) ==
    IF syms = <<>> THEN <<>>
    ELSE (IF Head(syms) \in ok THEN <<PeerRow(Head(syms), infoOf[Head(syms)])>>
          ELSE <<>>) \o PeerData(Tail(syms), infoOf, ok)

\* (peer rows that keep the subject's own row)
PeerMetrics_WithSubject(peer_data, sym) == peer_data
\* [p for p in peer_data if p['symbol'] != symbol]
PeerMetrics(peer_data, sym) == SelectSeq(peer_data, LAMBDA p : p.symbol # sym)

\* [v for v in values if v is not None and not pd.isna(v)]
Valid(values) == SelectSeq(values, LAMBDA v : ~IsNull(v) /\ ~IsNaN(v))

\* np.median of a non-empty list
median(values) ==
    LET ys == Sorted(values)
        n == Len(ys)
    IN  IF n % 2 = 1 THEN ys[(n + 1) \div 2]
        ELSE RDiv(RAdd(ys[n \div 2], ys[(n \div 2) + 1]), R(2))

safe_median(values) == IF Valid(values) = <<>> THEN Null ELSE median(Valid(values))

Column(rows, field) == [i \in 1..Len(rows) |-> rows[i][field]]

CountBelow(values, value) == Cardinality({i \in 1..Len(values) : RLt(values[i], value)})

\* (a rank that counts the peers at or below the value)
percentile_rank_AtOrBelow(value, peer_values) ==
    IF IsNull(value) \/ IsNaN(value) THEN Null
    ELSE IF Valid(peer_values) = <<>> THEN Null
    ELSE RMul(Q(Cardinality({i \in 1..Len(Valid(peer_values)) :
                                RLe(Valid(peer_values)[i], value)}),
                Len(Valid(peer_values))), R(100))

percentile_rank(value, peer_values) ==
    IF IsNull(value) \/ IsNaN(value) THEN Null
    ELSE IF Valid(peer_values) = <<>> THEN Null
    ELSE RMul(Q(CountBelow(Valid(peer_values), value), Len(Valid(peer_values))), R(100))

RelativeValuationLabel(pe_rank) ==
    IF RGt(pe_rank, R(60)) THEN "Premium to sector"
    ELSE IF RLt(pe_rank, R(40)) THEN "Discount to sector"
    ELSE "In-line with sector"

RelativeQualityLabel(roe_rank) ==
    IF RGt(roe_rank, R(60)) THEN "Above average quality"
    ELSE IF RLt(roe_rank, R(40)) THEN "Below average quality"
    ELSE "Average quality"

SanitizedRow(row) ==
    [f \in DOMAIN row |-> IF f = "symbol" THEN row[f] ELSE _sanitize(row[f])]

\* Enough rows were retrieved to go on: `len(peer_data) < 2` refuses.
EnoughPeerData(peer_data, sym) == Len(peer_data) >= 2

get_sector_valuation_multiples(sym, inf, isDown, infoOf, ok) ==
    LET sector == _get_sector_for_symbol(sym)
        peers == _get_peer_stocks(sym, MaxPeers)
        all == [s \in DOMAIN infoOf \cup {sym} |->
                   IF s = sym THEN inf ELSE infoOf[s]]
        answering == IF isDown THEN ok \ {sym} ELSE ok \cup {sym}
        peer_data == PeerData(<<sym>> \o peers, all, answering)
        peer_metrics == PeerMetrics(peer_data, sym)
        sector_medians ==
            [f \in {"pe_ratio", "forward_pe", "pb_ratio", "ev_ebitda", "roe",
                    "profit_margin"} |-> safe_median(Column(peer_metrics, f))]
        target_stock == peer_data[1]
        percentiles ==
            [f \in {"pe_ratio", "pb_ratio", "ev_ebitda", "roe"} |->
                percentile_rank(target_stock[f], Column(peer_metrics, f))]
    IN  IF sector = ""
        THEN FailureMsg("Symbol not found in predefined sectors",
                        "Cannot perform peer comparison without sector classification")
        ELSE IF peers = <<>>
        THEN FailureMsg("No peers found", "Insufficient peers for comparison")
        ELSE IF ~EnoughPeerData(peer_data, sym)
        THEN FailureMsg("Insufficient peer data retrieved",
                        "Cannot calculate sector multiples")
        ELSE IF peer_data[1].symbol # sym
        THEN Failure("Could not retrieve data")
        \* None > 60 raises TypeError in the interpretation
        ELSE IF IsNull(percentiles.pe_ratio) \/ IsNull(percentiles.roe)
        THEN FailureMsg("Sector valuation error", "Cannot calculate sector multiples")
        ELSE [symbol |-> sym,
              sector |-> sector,
              peer_count |-> Len(peer_metrics),
              peers |-> Column(peer_metrics, "symbol"),
              target_metrics |-> SanitizedRow(target_stock),
              sector_medians |-> [f \in DOMAIN sector_medians |->
                                     _sanitize(sector_medians[f])],
              percentile_ranks |-> percentiles,
              interpretation |->
                 [relative_valuation |-> RelativeValuationLabel(percentiles.pe_ratio),
                  relative_quality |-> RelativeQualityLabel(percentiles.roe)]]


----------------------------------------------------------------------------
(* calculate_relative_valuation *)

\* json.loads of a payload that _safe_json_dumps wrote: the payload with its
\* NaN and infinite numbers already turned to null, which is how the
\* components build it.
json_loads(payload) == payload

\* a dependant that never sees the flag
DataUnavailable_Never(d) == FALSE
\* sector_data.get("DATA_UNAVAILABLE")
DataUnavailable(d) == "DATA_UNAVAILABLE" \in DOMAIN d /\ d.DATA_UNAVAILABLE
\* d.get(key) and d.get(key, {}): the empty tuple is both None and {}
Get(d, key) == IF key \in DOMAIN d THEN d[key] ELSE Null

\* `if driver and multiple and driver > 0`: one method's fair value, if any
MethodValue_AnySign(name, driver, multiple) ==
    IF Truthy(driver) /\ Truthy(multiple)
    THEN <<[method |-> name, fair_value |-> RMul(driver, multiple)]>>
    ELSE <<>>
MethodValue(name, driver, multiple) ==
    IF Truthy(driver) /\ Truthy(multiple) /\ RGt(driver, R(0))
    THEN <<[method |-> name, fair_value |-> RMul(driver, multiple)]>>
    ELSE <<>>

FairValues(inf, sector_medians) ==
    MethodValue("PE-based", inf.trailingEps, Get(sector_medians, "pe_ratio"))
    \o MethodValue("PB-based", inf.bookValue, Get(sector_medians, "pb_ratio"))
    \o MethodValue("Forward PE-based", inf.forwardEps, Get(sector_medians, "forward_pe"))

\* ((value - current_price) / current_price) * 100
UpsidePct(value, price) == RMul(RDiv(RSub(value, price), price), R(100))

ValuationVerdict(avg_upside_pct) ==
    IF RGt(avg_upside_pct, R(15)) THEN "Undervalued"
    ELSE IF RLt(avg_upside_pct, R(-15)) THEN "Overvalued"
    ELSE "Fairly valued"

min_fair_value_first(values) == values[1]
min_fair_value(values) == RMin(values)
max_fair_value(values) == RMax(values)
avg_fair_value(values) == RMean(values)

RelativeValuation(sym, price, fair_values, values) ==
    [symbol |-> sym,
     current_price |-> _sanitize(price),
     fair_value_range |->
        [min |-> _sanitize(min_fair_value(values)),
         average |-> _sanitize(avg_fair_value(values)),
         max |-> _sanitize(max_fair_value(values))],
     valuation_methods |-> fair_values,
     upside_downside |->
        [to_min |-> _sanitize(UpsidePct(min_fair_value(values), price)),
         to_average |-> _sanitize(UpsidePct(avg_fair_value(values), price)),
         to_max |-> _sanitize(UpsidePct(max_fair_value(values), price))],
     valuation_verdict |->
        ValuationVerdict(UpsidePct(avg_fair_value(values), price))]

calculate_relative_valuation(sym, inf, isDown, infoOf, ok) ==
    IF isDown THEN Failure("Valuation calculation error")
    ELSE
    Bind(Or(inf.currentPrice, inf.regularMarketPrice), LAMBDA price :
    Bind(json_loads(get_sector_valuation_multiples(sym, inf, isDown, infoOf, ok)),
         LAMBDA sector_data :
        IF ~Truthy(price) THEN Failure("Current price not available")
        ELSE IF DataUnavailable(sector_data)
        THEN Failure("Cannot calculate valuation without sector comparison")
        ELSE Bind(FairValues(inf, Get(sector_data, "sector_medians")),
                  LAMBDA fair_values :
                 IF fair_values = <<>>
                 THEN Failure("Insufficient data for valuation calculation")
                 ELSE RelativeValuation(sym, price, fair_values,
                                        Column(fair_values, "fair_value")))))

----------------------------------------------------------------------------
(* build_scenario_valuations *)

\* a scenario priced on the current earnings, whatever its growth assumption
ValuationScenario_NoGrowth(eps, pe, price, growthPct, multiplePct, probabilityPct, description) ==
    [assumptions |-> [earnings_growth |-> Q(growthPct, 100),
                      pe_multiple_change |-> Q(multiplePct, 100),
                      probability |-> Q(probabilityPct, 100),
                      description |-> description],
     future_eps |-> _sanitize(eps),
     future_pe |-> _sanitize(pe),
     target_price |-> _sanitize(RMul(eps, pe)),
     upside_pct |-> _sanitize(UpsidePct(RMul(eps, pe), price))]
\* One scenario: earnings growth and P/E change in percent of the base.
ValuationScenario(eps, pe, price, growthPct, multiplePct, probabilityPct, description) ==
    LET future_eps == RMul(eps, Q(100 + growthPct, 100))
        future_pe == RMul(pe, Q(multiplePct, 100))
        target_price == RMul(future_eps, future_pe)
    IN  [assumptions |-> [earnings_growth |-> Q(growthPct, 100),
                          pe_multiple_change |-> Q(multiplePct, 100),
                          probability |-> Q(probabilityPct, 100),
                          description |-> description],
         future_eps |-> _sanitize(future_eps),
         future_pe |-> _sanitize(future_pe),
         target_price |-> _sanitize(target_price),
         upside_pct |-> _sanitize(UpsidePct(target_price, price))]

\* bull_upside / bear_downside if bear_downside > 0 else None
RiskReward(bull_upside, bear_upside) ==
    LET bear_downside == IF RLt(bear_upside, R(0)) THEN RNeg(bear_upside)
                         ELSE bear_upside
    IN  IF RGt(bear_downside, R(0)) THEN RDiv(bull_upside, bear_downside) ELSE Null

ScenarioRecommendation(risk_reward) ==
    IF Truthy(risk_reward) /\ RGt(risk_reward, R(2)) THEN "Attractive"
    ELSE IF Truthy(risk_reward) /\ RGt(risk_reward, R(1)) THEN "Neutral"
    ELSE IF Truthy(risk_reward) THEN "Unfavorable"
    ELSE "Insufficient data"

build_scenario_valuations(sym, inf, isDown) ==
    IF isDown THEN Failure("Scenario modeling error")
    ELSE LET price == Or(inf.currentPrice, inf.regularMarketPrice)
             current_pe == inf.trailingPE
             current_eps == inf.trailingEps
             bull == ValuationScenario(current_eps, current_pe, price, 20, 110, 25,
                         "Strong earnings beat, sector tailwinds, multiple expansion")
             base == ValuationScenario(current_eps, current_pe, price, 5, 100, 50,
                         "In-line earnings, stable multiples, no major surprises")
             bear == ValuationScenario(current_eps, current_pe, price, -15, 90, 25,
                         "Earnings miss, sector headwinds, multiple compression")
             risk_reward == RiskReward(bull.upside_pct, bear.upside_pct)
         IN  IF ~(Truthy(price) /\ Truthy(current_pe) /\ Truthy(current_eps))
             THEN FailureMsg("Insufficient data for scenario modeling",
                             "Need current price, PE, and EPS for scenarios")
             ELSE [symbol |-> sym,
                   current_price |-> _sanitize(price),
                   current_pe |-> _sanitize(current_pe),
                   current_eps |-> _sanitize(current_eps),
                   scenarios |-> [bull |-> bull, base |-> base, bear |-> bear],
                   risk_reward_ratio |-> _sanitize(risk_reward),
                   recommendation |-> ScenarioRecommendation(risk_reward)]

----------------------------------------------------------------------------
(* identify_multiple_drivers *)

\* `if roe_percentile and roe_percentile > 60`
SuperiorRoe(roe_percentile) == Truthy(roe_percentile) /\ RGt(roe_percentile, R(60))
BelowAverageRoe(roe_percentile) == Truthy(roe_percentile) /\ RLt(roe_percentile, R(40))
\* target_margin > sector_margin * 1.1
HigherMargins(target_margin, sector_margin) ==
    /\ Truthy(target_margin) /\ Truthy(sector_margin)
    /\ RGt(target_margin, RMul(sector_margin, Q(11, 10)))
UnjustifiedPremium(pe_percentile, roe_percentile) ==
    /\ Truthy(pe_percentile) /\ Truthy(roe_percentile)
    /\ RGt(pe_percentile, R(70)) /\ RLt(roe_percentile, R(50))

MultipleBias(net_bias) ==
    IF net_bias > 0 THEN "Expansion likely"
    ELSE IF net_bias < 0 THEN "Compression risk"
    ELSE "Stable"

ExpansionDrivers(target_margin, sector_margin, roe_percentile) ==
    (IF SuperiorRoe(roe_percentile)
     \* details: the figures the sentence is formatted from
     THEN <<[factor |-> "Superior ROE vs peers", impact |-> "Positive",
             details |-> <<RSub(R(100), roe_percentile)>>]>>
     ELSE <<>>)
    \o (IF HigherMargins(target_margin, sector_margin)
        THEN <<[factor |-> "Higher profit margins", impact |-> "Positive",
                details |-> <<RMul(target_margin, R(100)),
                              RMul(sector_margin, R(100))>>]>>
        ELSE <<>>)

CompressionRisks(roe_percentile, pe_percentile) ==
    (IF BelowAverageRoe(roe_percentile)
     THEN <<[factor |-> "Below-average ROE", impact |-> "Negative",
             details |-> <<roe_percentile>>]>>
     ELSE <<>>)
    \o (IF UnjustifiedPremium(pe_percentile, roe_percentile)
        THEN <<[factor |-> "Valuation premium not justified by quality",
                impact |-> "Negative", details |-> <<>>]>>
        ELSE <<>>)

MultipleDrivers(sym, target_margin, sector_margin, roe_percentile, pe_percentile, expansion_drivers, compression_risks) ==
    [symbol |-> sym,
     expansion_drivers |-> expansion_drivers,
     compression_risks |-> compression_risks,
     driver_count |-> [positive |-> Len(expansion_drivers),
                       negative |-> Len(compression_risks)],
     multiple_bias |-> MultipleBias(Len(expansion_drivers) - Len(compression_risks)),
     quality_metrics |->
        [roe_percentile |-> roe_percentile,
         pe_percentile |-> pe_percentile,
         margin_vs_sector |->
            IF Truthy(target_margin) /\ Truthy(sector_margin)
            THEN _sanitize(RMul(RSub(RDiv(target_margin, sector_margin), R(1)),
                                R(100)))
            ELSE Null]]

identify_multiple_drivers(sym, inf, isDown, infoOf, ok) ==
    Bind(json_loads(get_sector_valuation_multiples(sym, inf, isDown, infoOf, ok)),
         LAMBDA sector_data :
        IF DataUnavailable(sector_data)
        THEN Failure("Cannot analyze without sector comparison")
        ELSE Bind(Get(Get(sector_data, "target_metrics"), "profit_margin"),
                  LAMBDA target_margin :
             Bind(Get(Get(sector_data, "sector_medians"), "profit_margin"),
                  LAMBDA sector_margin :
             Bind(Get(Get(sector_data, "percentile_ranks"), "roe"),
                  LAMBDA roe_percentile :
             Bind(Get(Get(sector_data, "percentile_ranks"), "pe_ratio"),
                  LAMBDA pe_percentile :
                MultipleDrivers(
                    sym, target_margin, sector_margin, roe_percentile, pe_percentile,
                    ExpansionDrivers(target_margin, sector_margin, roe_percentile),
                    CompressionRisks(roe_percentile, pe_percentile)))))))


----------------------------------------------------------------------------
(* calculate_data_quality_score (src/tools/validation.py) *)

max_score == 100
QualityMinBars == 10

\* The point tables, in the order the source walks them.  The two price
\* fields of critical_fields are handled apart: they share one award.
price_fields == <<"currentPrice", "regularMarketPrice">>
critical_fields == <<<<"marketCap", 10>>, <<"symbol", 10>>>>
valuation_fields ==
    <<<<"trailingPE", 6>>, <<"forwardPE", 4>>, <<"priceToBook", 6>>,
      <<"priceToSalesTrailing12Months", 4>>, <<"enterpriseValue", 5>>,
      <<"enterpriseToEbitda", 5>>>>
profitability_fields ==
    <<<<"returnOnEquity", 5>>, <<"returnOnAssets", 5>>, <<"profitMargins", 5>>>>
health_fields == <<<<"debtToEquity", 5>>, <<"currentRatio", 5>>>>

\* info.get('symbol'): a string, empty when the snapshot has none
InfoSymbol(inf) == IF "symbol" \in DOMAIN inf THEN inf.symbol ELSE ""
\* `if info.get(field)`
FieldTruthy(inf, field) ==
    IF field = "symbol" THEN InfoSymbol(inf) # "" ELSE Truthy(Get(inf, field))
\* `value is not None and value != 0`
NotNoneNotZero(inf, field) == ~IsNull(Get(inf, field)) /\ Get(inf, field) # R(0)
\* `info.get(field) is not None`
NotNone(inf, field) == ~IsNull(Get(inf, field))

\* current_price_found after the loop over the critical fields
current_price_found(inf) == \E k \in 1..Len(price_fields) : FieldTruthy(inf, price_fields[k])

RECURSIVE SumPoints(_)
SumPoints(entries) ==
    IF entries = <<>> THEN 0 ELSE Head(entries)[2] + SumPoints(Tail(entries))
FieldNames(entries) == SubSeq([k \in 1..Len(entries) |-> entries[k][1]], 1, Len(entries))

\* The entries of a table that earn their points, and the names of the others
Earned(entries, inf, Test(_, _)) == SelectSeq(entries, LAMBDA e : Test(inf, e[1]))
Unearned(entries, inf, Test(_, _)) ==
    FieldNames(SelectSeq(entries, LAMBDA e : ~Test(inf, e[1])))

\* ticker.history(period="1mo") inside its own try/except
HistoryStatus(hs, histRaises) ==
    IF histRaises THEN "Error"
    ELSE IF Len(hs) >= QualityMinBars THEN "Available (1 month)"
    ELSE "Insufficient"

QualityScore(inf, hs, histRaises) ==
    (IF current_price_found(inf) THEN 10 ELSE 0)
    + SumPoints(Earned(critical_fields, inf, FieldTruthy))
    + SumPoints(Earned(valuation_fields, inf, NotNoneNotZero))
    + SumPoints(Earned(profitability_fields, inf, NotNone))
    + SumPoints(Earned(health_fields, inf, NotNone))
    + (IF HistoryStatus(hs, histRaises) = "Available (1 month)" THEN 5 ELSE 0)

QualityMissing(inf, hs, histRaises) ==
    Unearned(critical_fields, inf, FieldTruthy)
    \o (IF current_price_found(inf) THEN <<>> ELSE <<"currentPrice/regularMarketPrice">>)
    \o Unearned(valuation_fields, inf, NotNoneNotZero)
    \o Unearned(profitability_fields, inf, NotNone)
    \o Unearned(health_fields, inf, NotNone)
    \o (IF HistoryStatus(hs, histRaises) = "Available (1 month)" THEN <<>>
        ELSE <<"historical_data">>)

QualityBreakdown(inf, hs, histRaises) ==
    LET optional == Earned(valuation_fields, inf, NotNoneNotZero)
                    \o Earned(profitability_fields, inf, NotNone)
                    \o Earned(health_fields, inf, NotNone)
        keys == {"current_price", "historical_data"}
                \cup {critical_fields[k][1] : k \in 1..Len(critical_fields)}
                \cup {optional[k][1] : k \in 1..Len(optional)}
    IN  [key \in keys |->
            IF key = "current_price"
            THEN (IF current_price_found(inf) THEN "Available" ELSE "MISSING (Critical)")
            ELSE IF key = "historical_data" THEN HistoryStatus(hs, histRaises)
            ELSE IF key \in {"marketCap", "symbol"} /\ ~FieldTruthy(inf, key) THEN "Missing"
            ELSE "Available"]

QualityTier(score) ==
    IF score >= 80 THEN "HIGH" ELSE IF score >= 60 THEN "MEDIUM"
    ELSE IF score >= 40 THEN "LOW" ELSE "VERY LOW"
QualityConfidence(score) ==
    IF score >= 80 THEN "Strong" ELSE IF score >= 60 THEN "Moderate"
    ELSE IF score >= 40 THEN "Weak" ELSE "Insufficient"
QualityRecommendation(score) ==
    IF score >= 80 THEN "PROCEED with high confidence"
    ELSE IF score >= 60 THEN "PROCEED with caution"
    ELSE IF score >= 40 THEN "PROCEED with low confidence - limited data"
    ELSE "ABORT or accept very limited analysis"

\* missing_fields[:10]
Top10(s) == IF Len(s) <= 10 THEN s ELSE SubSeq(s, 1, 10)

calculate_data_quality_score(sym, inf, hs, isDown, histRaises) ==
    IF isDown
    THEN [symbol |-> sym, quality_score |-> 0, max_score |-> 100,
          quality_tier |-> "ERROR", confidence |-> "None",
          error |-> "data source error",
          recommendation |-> "ABORT - Cannot assess data quality"]
    ELSE Bind(QualityScore(inf, hs, histRaises), LAMBDA score :
            [symbol |-> sym,
             quality_score |-> score,
             max_score |-> max_score,
             quality_tier |-> QualityTier(score),
             confidence |-> QualityConfidence(score),
             breakdown |-> QualityBreakdown(inf, hs, histRaises),
             missing_fields |-> Top10(QualityMissing(inf, hs, histRaises)),
             recommendation |-> QualityRecommendation(score)])

----------------------------------------------------------------------------
(* create_stock_research_crew (src/crews/research_crew.py) *)

\* context=[...] of every Task
TaskContext ==
    [market_data_task |-> <<>>,
     guardian_task |-> <<"market_data_task">>,
     news_analysis_task |-> <<>>,
     fundamental_task |-> <<"guardian_task">>,
     valuation_task |-> <<"fundamental_task", "guardian_task">>,
     technical_task |-> <<"guardian_task">>,
     risk_task |-> <<"technical_task", "fundamental_task", "valuation_task",
                     "guardian_task">>,
     strategy_task |-> <<"fundamental_task", "technical_task", "news_analysis_task",
                         "valuation_task", "risk_task", "guardian_task">>,
     report_task |-> <<"guardian_task", "market_data_task", "news_analysis_task",
                       "fundamental_task", "valuation_task", "technical_task",
                       "risk_task", "strategy_task">>]

\* The task list handed to Crew(tasks=..., process=Process.sequential)
create_stock_research_crew(sym, analysis_type) ==
    IF analysis_type = "quick"
    THEN <<"market_data_task", "guardian_task", "fundamental_task",
           "valuation_task", "strategy_task", "report_task">>
    ELSE IF analysis_type = "technical-only"
    THEN <<"market_data_task", "guardian_task", "technical_task", "risk_task",
           "report_task">>
    ELSE <<"market_data_task", "guardian_task", "news_analysis_task",
           "fundamental_task", "valuation_task", "technical_task", "risk_task",
           "strategy_task", "report_task">>

NoCrew == [analysis_type |-> "", tasks |-> <<>>, done |-> <<>>]

\* The context tasks that have produced an output by now
OutputsOf(context, done) ==
    SelectSeq(context, LAMBDA c : \E k \in 1..Len(done) : done[k].task = c)

----------------------------------------------------------------------------
(* Bounds and input families *)

\* Calls a caller makes in one behaviour; calculate_var may be repeated.
MaxCalls == 1
MaxVarCalls == 2
\* Holding periods 1..MaxPeriodDays
MaxPeriodDays == 2
\* A bar's high lies 0..MaxSpread above the base price
MaxSpread == 1
\* Containers nest 1..MaxDepth deep inside a payload
MaxDepth == 2

\* Histories for the stop-loss ladder: a flat base, optionally one bar with a
\* deep low (inside the ATR window, inside the 1-month window only, inside
\* the 3-month window only, or outside both), optionally a lower last close.
StopBaseBars == {Bar(20 + u, l, 20) : u \in 0..MaxSpread, l \in {0, 10, 19, 20}}
StopDipBars == {Bar(20, 10, 20)}
StopLengths == {49, 50, 80}
StopHistories ==
    LET flat == {Flat(n, b) : n \in StopLengths, b \in StopBaseBars}
        dipped == flat \cup {WithBar(h, pos, d) :
                                h \in flat, pos \in {18, 30, 70}, d \in StopDipBars}
    IN  dipped \cup {WithBar(h, 1, Bar(20, 15, 18)) : h \in dipped}
        \* price 100 with a true range of 5 on every bar, and the same
        \* history with its lows far below the ATR-based stops
        \cup {Flat(50, Bar(103, 98, 100)), Flat(50, Bar(100, 95, 100)),
              WithBar(Flat(50, Bar(100, 95, 100)), 1, Bar(103, 98, 100))}

\* Histories for the drawdown analysis: a flat base with up to two interior
\* closes moved and the last close moved.
CloseBar(c) == Bar(c, c, c)
DownsideLengths == {99, 100}
DownsideHistories ==
    {WithBar(WithBar(WithBar(Flat(n, CloseBar(20)), 50, CloseBar(a)),
                     20, CloseBar(b)), 1, CloseBar(c)) :
        n \in DownsideLengths, a \in {20, 16, 10}, b \in {20, 16, 10, 25},
        c \in {20, 16, 25, 10}}
    \* closes 25, 16, 15, 18 at the end: the daily returns average 0.07 / 252
    \cup {WithBar(WithBar(WithBar(WithBar(Flat(100, CloseBar(20)), 4, CloseBar(25)),
                                   3, CloseBar(16)), 2, CloseBar(15)), 1, CloseBar(18))}
    \* the highest close on the first bar of the window
    \cup {WithBar(WithBar(Flat(100, CloseBar(20)), 100, CloseBar(25)), 50, CloseBar(a)) :
              a \in {20, 16}}

\* Histories for the VaR bootstrap: closes repeating a short pattern.
VarLengths == {59, 60, 61}
VarPatterns == {<<20>>, <<20, 16>>, <<20, 25, 16>>}
VarHistories ==
    {Periodic(n, [i \in 1..Len(pat) |-> CloseBar(pat[i])]) :
        n \in VarLengths, pat \in VarPatterns}

\* Payloads handed to the serializer: dicts and lists nested MaxDepth deep
\* over floats (finite, NaN, the infinities), ints, strings and None.
PyLeaves == {PyFloat(NaN), PyFloat(PosInf), PyFloat(NegInf), PyFloat(Q(3, 2)),
             PyInt(1), PyStr("NaN"), PyNone}
RECURSIVE PyValues(_)
PyValues(depth) ==
    IF depth = 0 THEN PyLeaves
    ELSE PyLeaves
         \cup {PyList(<<>>)}
         \cup {PyList(<<v>>) : v \in PyValues(depth - 1)}
         \cup {PyList(<<v, PyFloat(NaN)>>) : v \in PyValues(depth - 1)}
         \cup {PyDict(<<Item("k", v)>>) : v \in PyValues(depth - 1)}
         \cup {PyDict(<<Item("k", v), Item("j", PyFloat(PosInf))>>) :
                  v \in PyValues(depth - 1)}
RawPayloads == {v \in PyValues(MaxDepth + 1) : v.kind = "dict"}

\* Snapshots for the data quality score: every scored field given, or none,
\* with one field at a time absent, zero, NaN or given; and both prices absent.
QualityNumericFields ==
    {"currentPrice", "regularMarketPrice", "marketCap", "trailingPE", "forwardPE",
     "priceToBook", "priceToSalesTrailing12Months", "enterpriseValue",
     "enterpriseToEbitda", "returnOnEquity", "returnOnAssets", "profitMargins",
     "debtToEquity", "currentRatio"}
QualityFields == QualityNumericFields \cup {"symbol"}
FullQualityInfo ==
    [f \in QualityFields |-> IF f = "symbol" THEN "BHARTIARTL.NS" ELSE R(5)]
EmptyQualityInfo == [f \in QualityFields |-> IF f = "symbol" THEN "" ELSE Null]
QualityInfos ==
    LET bases == {FullQualityInfo, EmptyQualityInfo,
                  [FullQualityInfo EXCEPT !.currentPrice = Null,
                                          !.regularMarketPrice = Null]}
    IN  bases
        \cup {[b EXCEPT ![f] = v] :
                  b \in bases, f \in QualityNumericFields, v \in {Null, R(0), NaN, R(5)}}
        \cup {[b EXCEPT !.symbol = t] : b \in bases, t \in {"", "BHARTIARTL.NS"}}
\* One month of bars: none, one short of the minimum, the minimum
QualityHistories == {<<>>, Flat(QualityMinBars - 1, CloseBar(20)),
                     Flat(QualityMinBars, CloseBar(20))}

\* What a caller passes to create_stock_research_crew
AnalysisTypes == {"full", "quick", "technical-only", "invalid_type", ""}
CrewSymbols == {"BHARTIARTL", "INVALIDSYM", ""}

\* confidence levels a caller passes
ConfidenceLevels == {Q(95, 100)}

Subject == "BHARTIARTL"
Symbols == {"BHARTIARTL", "INVALIDSYM"}
PeerSymbols == {"IDEA", "TATACOMM"}

Opt(values) == {Null} \cup {R(v) : v \in values}

\* Snapshots for the leverage assessment
LeverageInfos ==
    {[NoInfo EXCEPT !.debtToEquity = de, !.totalDebt = td,
                    !.totalStockholderEquity = te, !.interestCoverage = ic] :
        de \in Opt({0, 30, 50, 100, 150, 200, 250}),
        td \in Opt({0, 50}),
        te \in Opt({0, 100, -100}),
        ic \in Opt({-1, 0, 1, 2, 3, 5, 6}) \cup {Q(5, 2)}}

\* Snapshots of the subject and of its peers for the sector comparison
SectorSubjectInfos ==
    {[NoInfo EXCEPT !.trailingPE = pe, !.returnOnEquity = roe,
                    !.priceToBook = R(3), !.profitMargins = R(12),
                    !.currentPrice = R(1500), !.trailingEps = R(100)] :
        pe \in Opt({5, 15, 25}), roe \in Opt({5, 15})}
SectorPeerInfos ==
    {[NoInfo EXCEPT !.trailingPE = pe, !.returnOnEquity = roe,
                    !.priceToBook = pb, !.profitMargins = R(10)] :
        pe \in Opt({10, 20}), roe \in Opt({10}), pb \in {R(2)}}

\* Snapshots for the fair-value and scenario valuations
ValuationSubjectInfos ==
    {[NoInfo EXCEPT !.trailingPE = pe, !.returnOnEquity = R(15),
                    !.currentPrice = cp, !.regularMarketPrice = rp,
                    !.trailingEps = eps, !.bookValue = bv, !.forwardEps = feps] :
        pe \in Opt({10}), cp \in Opt({0, 200}), rp \in Opt({150}),
        eps \in Opt({-5, 0, 10, 20}), bv \in Opt({50, 100}), feps \in Opt({20})}
\* Snapshots for the bull/base/bear scenarios
ScenarioSubjectInfos ==
    {[NoInfo EXCEPT !.trailingPE = pe, !.currentPrice = cp,
                    !.regularMarketPrice = rp, !.trailingEps = eps] :
        pe \in Opt({0, 10, 20}), cp \in Opt({0, 132, 200}), rp \in Opt({150}),
        eps \in Opt({-5, 0, 10, 20})}
ValuationPeerInfos ==
    {[NoInfo EXCEPT !.trailingPE = pe, !.returnOnEquity = R(10),
                    !.priceToBook = pb, !.forwardPE = fpe] :
        pe \in Opt({10}), pb \in Opt({0, 2, 4}), fpe \in Opt({10})}

\* Histories and snapshots for the scenario risks: one bar, two bars (no
\* sample deviation yet) or a patterned year; beta absent, 0, low, market,
\* high or not-a-number.
ScenarioHistories ==
    {Flat(n, CloseBar(20)) : n \in {1, 2}}
    \cup {Periodic(60, [i \in 1..Len(pat) |-> CloseBar(pat[i])]) : pat \in VarPatterns}
ScenarioInfos == {[NoInfo EXCEPT !.beta = b] : b \in Opt({0, 1, 2}) \cup {Q(1, 2), NaN}}

DefaultHistory == Flat(StopLossMinBars, CloseBar(20))
DefaultPeers == [s \in PeerSymbols |-> [NoInfo EXCEPT !.trailingPE = R(10),
                                                      !.returnOnEquity = R(10)]]
Idle == [t \in {1, 2} |-> [pc |-> "idle"]]

----------------------------------------------------------------------------
(* Initial states *)

InitCommon ==
    /\ calls = <<>>
    /\ thr = Idle
    /\ crew = NoCrew

\* Before create_stock_research_crew is called.
InitCrew ==
    /\ symbol \in CrewSymbols
    /\ hist = DefaultHistory /\ down = FALSE /\ info = NoInfo
    /\ peerInfo = DefaultPeers /\ fetched = PeerSymbols /\ rng = 0
    /\ calls = <<>> /\ thr = Idle
    /\ crew = NoCrew

InitStop ==
    /\ hist \in StopHistories
    /\ down = FALSE /\ info = NoInfo /\ symbol = Subject
    /\ peerInfo = DefaultPeers /\ fetched = PeerSymbols /\ rng = 0
    /\ InitCommon

InitDownside ==
    /\ hist \in DownsideHistories
    /\ down = FALSE /\ info = NoInfo /\ symbol = Subject
    /\ peerInfo = DefaultPeers /\ fetched = PeerSymbols /\ rng = 0
    /\ InitCommon

InitVar ==
    /\ hist \in VarHistories
    /\ rng \in 0..(RngMod - 1)
    /\ down = FALSE /\ info = NoInfo /\ symbol = Subject
    /\ peerInfo = DefaultPeers /\ fetched = PeerSymbols
    /\ InitCommon

\* The histories two concurrent invocations share.
InitThreads ==
    /\ hist \in {Periodic(n, [i \in 1..Len(pat) |-> CloseBar(pat[i])]) :
                    n \in {59, 60}, pat \in {<<20, 16>>, <<20, 25, 16>>}}
    /\ rng \in 0..(RngMod - 1)
    /\ down = FALSE /\ info = NoInfo /\ symbol = Subject
    /\ peerInfo = DefaultPeers /\ fetched = PeerSymbols
    /\ InitCommon

\* The data collaborator fails outright, or serves no bars at all.
InitOutage ==
    /\ \/ hist = DefaultHistory /\ down = TRUE
       \/ hist = <<>> /\ down = FALSE
    /\ info \in {NoInfo, [NoInfo EXCEPT !.debtToEquity = R(30)]}
    /\ symbol \in Symbols
    /\ peerInfo = DefaultPeers /\ fetched \in SUBSET PeerSymbols /\ rng = 0
    /\ InitCommon

InitQuality ==
    /\ info \in QualityInfos
    /\ hist \in QualityHistories
    /\ down \in BOOLEAN /\ symbol = Subject
    /\ peerInfo = DefaultPeers /\ fetched = PeerSymbols /\ rng = 0
    /\ InitCommon

InitScenario ==
    /\ hist \in ScenarioHistories
    /\ info \in ScenarioInfos
    /\ down = FALSE /\ symbol = Subject
    /\ peerInfo = DefaultPeers /\ fetched = PeerSymbols /\ rng = 0
    /\ InitCommon

InitLeverage ==
    /\ info \in LeverageInfos \cup ScenarioSubjectInfos
    /\ hist = DefaultHistory /\ down = FALSE /\ symbol = Subject
    /\ peerInfo = DefaultPeers /\ fetched = PeerSymbols /\ rng = 0
    /\ InitCommon

InitSector ==
    /\ info \in SectorSubjectInfos
    /\ peerInfo \in [PeerSymbols -> SectorPeerInfos]
    /\ fetched \in SUBSET PeerSymbols
    /\ down \in BOOLEAN
    /\ symbol = Subject
    /\ hist = DefaultHistory /\ rng = 0
    /\ InitCommon

InitValuation ==
    /\ info \in ValuationSubjectInfos
    /\ peerInfo \in {[s \in PeerSymbols |-> p] : p \in ValuationPeerInfos}
    /\ fetched = PeerSymbols
    /\ down = FALSE /\ symbol = Subject
    /\ hist = DefaultHistory /\ rng = 0
    /\ InitCommon


----------------------------------------------------------------------------
(* The caller: one action per component *)

data == <<hist, down, info, symbol, peerInfo, fetched>>

\* A call of a component that leaves the generator alone.
Record(op, out) ==
    /\ Len(calls) < MaxCalls
    /\ calls' = Append(calls, [op |-> op, args |-> <<>>, out |-> out])
    /\ UNCHANGED <<crew, data, rng, thr>>

CallVar ==
    \E cl \in ConfidenceLevels, pd \in 1..MaxPeriodDays :
        /\ Len(calls) < MaxVarCalls
        /\ \A i \in 1..Len(calls) : calls[i].op = "calculate_var"
        /\ Bind(calculate_var(symbol, hist, down, cl, pd, rng), LAMBDA r :
                /\ calls' = Append(calls, [op |-> "calculate_var",
                                           args |-> <<cl, pd>>, out |-> r.out])
                /\ rng' = r.rng)
        /\ UNCHANGED <<crew, data, thr>>

CallDownside ==
    Record("analyze_downside_metrics", analyze_downside_metrics(symbol, hist, down))

CallLeverage ==
    Record("assess_leverage_risk", assess_leverage_risk(symbol, info, down))

CallStopLoss ==
    Record("calculate_stop_loss_levels", calculate_stop_loss_levels(symbol, hist, down))

CallScenarioRisks ==
    Record("model_scenario_risks", model_scenario_risks(symbol, hist, info, down))

CallSector ==
    Record("get_sector_valuation_multiples",
           get_sector_valuation_multiples(symbol, info, down, peerInfo, fetched))

CallRelativeValuation ==
    Record("calculate_relative_valuation",
           calculate_relative_valuation(symbol, info, down, peerInfo, fetched))

CallScenarioValuations ==
    Record("build_scenario_valuations", build_scenario_valuations(symbol, info, down))

CallDrivers ==
    Record("identify_multiple_drivers",
           identify_multiple_drivers(symbol, info, down, peerInfo, fetched))

\* calculate_data_quality_score; the one-month history request may raise on
\* its own.
CallQuality ==
    \E histRaises \in BOOLEAN :
        /\ Len(calls) < MaxCalls
        /\ calls' = Append(calls,
              [op |-> "calculate_data_quality_score", args |-> <<histRaises>>,
               out |-> calculate_data_quality_score(symbol, info, hist, down, histRaises)])
        /\ UNCHANGED <<crew, data, rng, thr>>

\* analyze_stock_sync: crew = create_stock_research_crew(symbol, analysis_type)
CreateCrew ==
    \E analysis_type \in AnalysisTypes :
        /\ crew = NoCrew
        /\ crew' = [analysis_type |-> analysis_type,
                    tasks |-> create_stock_research_crew(symbol, analysis_type),
                    done |-> <<>>]
        /\ UNCHANGED <<data, rng, calls, thr>>

\* crew.kickoff() under Process.sequential: the next task of the list runs
\* with the outputs of its context tasks that exist.
RunNextTask ==
    /\ Len(crew.done) < Len(crew.tasks)
    /\ LET task == crew.tasks[Len(crew.done) + 1]
       IN  crew' = [crew EXCEPT !.done =
                       Append(@, [task |-> task,
                                  context |-> OutputsOf(TaskContext[task], crew.done)])]
    /\ UNCHANGED <<data, rng, calls, thr>>

\* The output boundary on a payload of its own.
CallDumps ==
    \E raw \in RawPayloads :
        /\ Len(calls) < MaxCalls
        /\ calls' = Append(calls, [op |-> "_safe_json_dumps", args |-> <<raw>>,
                                   out |-> _safe_json_dumps(raw)])
        /\ UNCHANGED <<crew, data, rng, thr>>

----------------------------------------------------------------------------
(* calculate_var invocations running in threads (asyncio.to_thread): each   *)
(* np.random.choice call is one step on the shared generator.               *)

Threads == {1, 2}

VarStart(t) ==
    \E cl \in ConfidenceLevels, pd \in 1..MaxPeriodDays :
        /\ thr[t].pc = "idle"
        /\ thr' = [thr EXCEPT ![t] =
                     IF IsFailure(VarRefusal(hist, down))
                     THEN [pc |-> "done", confidence_level |-> cl, period_days |-> pd,
                           rng0 |-> rng, out |-> VarRefusal(hist, down)]
                     ELSE [pc |-> "sampling", confidence_level |-> cl,
                           period_days |-> pd, rng0 |-> rng, period_returns |-> <<>>]]
        /\ UNCHANGED <<crew, data, rng, calls>>

VarDraw(t) ==
    /\ thr[t].pc = "sampling"
    /\ Len(thr[t].period_returns) < Trials
    /\ LET b == BootstrapTrial(Returns(hist), thr[t].period_days, rng)
       IN  /\ thr' = [thr EXCEPT ![t].period_returns = Append(@, b.period_return)]
           /\ rng' = b.rng
    /\ UNCHANGED <<crew, data, calls>>

VarFinish(t) ==
    /\ thr[t].pc = "sampling"
    /\ Len(thr[t].period_returns) = Trials
    /\ thr' = [thr EXCEPT ![t] =
                 [pc |-> "done", confidence_level |-> thr[t].confidence_level,
                  period_days |-> thr[t].period_days, rng0 |-> thr[t].rng0,
                  out |-> VarPayload(symbol, hist, thr[t].confidence_level,
                                     thr[t].period_days, thr[t].period_returns)]]
    /\ UNCHANGED <<crew, data, rng, calls>>

----------------------------------------------------------------------------
(* Specifications *)

\* Every component on every input family.
Init == \/ InitStop \/ InitDownside \/ InitVar \/ InitOutage
        \/ InitLeverage \/ InitSector \/ InitValuation \/ InitScenario

Next == \/ CallVar \/ CallDownside \/ CallLeverage \/ CallStopLoss
        \/ CallScenarioRisks \/ CallSector \/ CallRelativeValuation
        \/ CallScenarioValuations \/ CallDrivers

Spec == Init /\ [][Next]_vars

\* The consumers of a price history.
InitHist == InitStop \/ InitDownside \/ InitVar \/ InitOutage \/ InitScenario
NextHist == CallVar \/ CallDownside \/ CallStopLoss \/ CallScenarioRisks
SpecHist == InitHist /\ [][NextHist]_vars

\* The consumers of the subject's fundamentals alone.
InitFundamentals == InitLeverage \/ InitOutage
NextFundamentals == CallLeverage \/ CallScenarioValuations
SpecFundamentals == InitFundamentals /\ [][NextFundamentals]_vars

\* The valuation components.
InitPeers == InitSector \/ InitValuation \/ InitOutage
NextPeers == \/ CallSector \/ CallRelativeValuation
             \/ CallScenarioValuations \/ CallDrivers
SpecPeers == InitPeers /\ [][NextPeers]_vars

\* The data quality score.
NextQuality == CallQuality
SpecQuality == InitQuality /\ [][NextQuality]_vars

\* The research crew.
NextCrew == CreateCrew \/ RunNextTask
SpecCrew == InitCrew /\ [][NextCrew]_vars

\* The serializer alone, on every payload shape.
InitDumps == InitOutage
NextDumps == CallDumps
SpecDumps == InitDumps /\ [][NextDumps]_vars

\* Two concurrent calculate_var invocations.
NextThreads == \E t \in Threads : VarStart(t) \/ VarDraw(t) \/ VarFinish(t)
SpecThreads == InitThreads /\ [][NextThreads]_vars

----------------------------------------------------------------------------
(* Properties *)

\* The recorded calls of one component, and those that succeeded
CallsOf(op) == {i \in 1..Len(calls) : calls[i].op = op}
SuccessesOf(op) == {i \in CallsOf(op) : IsSuccess(calls[i].out)}
FailuresOf(op) == {i \in CallsOf(op) : IsFailure(calls[i].out)}
StopPrice(i, level) == calls[i].out.stop_loss_levels[level].price

\* C1, as the code orders the ladder: whenever calculate_stop_loss_levels
\* succeeds, the conservative stop price is at most the moderate stop price.
C1_ConservativeAtMostModerate ==
    \A i \in SuccessesOf("calculate_stop_loss_levels") :
        RLe(StopPrice(i, "conservative"), StopPrice(i, "moderate"))

\* An accepted history whose conservative stop lies strictly below the
\* moderate stop, which lies strictly below the aggressive stop.
C1_Witness ==
    \E i \in SuccessesOf("calculate_stop_loss_levels") :
        /\ Len(hist) >= 50
        /\ RLt(StopPrice(i, "conservative"), StopPrice(i, "moderate"))
        /\ RLt(StopPrice(i, "moderate"), StopPrice(i, "aggressive"))

\* C1 as stated: conservative price >= moderate price >= aggressive price.
C1_AsStated ==
    \A i \in SuccessesOf("calculate_stop_loss_levels") :
        /\ RGe(StopPrice(i, "conservative"), StopPrice(i, "moderate"))
        /\ RGe(StopPrice(i, "moderate"), StopPrice(i, "aggressive"))

\* C3: a history shorter than the consumer's minimum (calculate_var 60 bars,
\* analyze_downside_metrics 100 bars, calculate_stop_loss_levels 50 bars) is
\* answered with the failure payload: an error string, DATA_UNAVAILABLE true,
\* and no estimate.
C3_ShortHistoryFails ==
    \A i \in 1..Len(calls) :
        (\/ calls[i].op = "calculate_var" /\ Len(hist) < 60
         \/ calls[i].op = "analyze_downside_metrics" /\ Len(hist) < 100
         \/ calls[i].op = "calculate_stop_loss_levels" /\ Len(hist) < 50)
        => /\ IsFailure(calls[i].out)
           /\ calls[i].out.DATA_UNAVAILABLE = TRUE
           /\ DOMAIN calls[i].out \subseteq {"error", "DATA_UNAVAILABLE", "message"}

\* A history one bar short of the drawdown analysis's minimum, refused.
C3_Witness ==
    \E i \in FailuresOf("analyze_downside_metrics") : ~down /\ Len(hist) = 99

\* The keys of a failure payload
FailureKeys == {"error", "DATA_UNAVAILABLE", "message"}

\* C4: every call of every component returns a record of exactly one kind:
\* a failure payload (an error string, DATA_UNAVAILABLE true, no result
\* field) or a success payload (result fields, no error key and no
\* DATA_UNAVAILABLE key).
C4_SuccessOrFailure ==
    \A i \in 1..Len(calls) :
        LET out == calls[i].out
        IN  IF "error" \in DOMAIN out \/ "DATA_UNAVAILABLE" \in DOMAIN out
            THEN /\ DOMAIN out \subseteq FailureKeys
                 /\ {"error", "DATA_UNAVAILABLE"} \subseteq DOMAIN out
                 /\ out.DATA_UNAVAILABLE = TRUE
            ELSE /\ "symbol" \in DOMAIN out
                 /\ DOMAIN out \cap FailureKeys = {}
                 /\ Cardinality(DOMAIN out) >= 2

\* The data collaborator raises and the sector comparison answers with a failure.
C4_Witness ==
    \E i \in FailuresOf("get_sector_valuation_multiples") : down

\* C5 as stated, for calculate_var: two calls in succession with the same
\* arguments on the same history return the same record.
C5_RepeatedCallSameOutput ==
    \A i, j \in CallsOf("calculate_var") :
        calls[i].args = calls[j].args => calls[i].out = calls[j].out

\* C6 as stated, for calculate_var: a finished invocation returned what it
\* returns when it runs alone from the generator state it started in.
C6_AsIfAlone ==
    \A t \in Threads :
        thr[t].pc = "done" =>
            thr[t].out = calculate_var(symbol, hist, down, thr[t].confidence_level,
                                       thr[t].period_days, thr[t].rng0).out

\* The fair values listed by a relative valuation
ListedFairValues(i) ==
    {calls[i].out.valuation_methods[k].fair_value :
        k \in 1..Len(calls[i].out.valuation_methods)}

C7_AsStated ==
    \A i \in SuccessesOf("analyze_downside_metrics") :
        IsNull(calls[i].out.sortino_ratio)
            <=> calls[i].out.downside_deviation = Root(1, R(0))

\* The snapshot field behind each ranked metric
RankedField == [pe_ratio |-> "trailingPE", pb_ratio |-> "priceToBook",
                ev_ebitda |-> "enterpriseToEbitda", roe |-> "returnOnEquity"]
\* The peers that answered, those with a value for a field, and those whose
\* value is strictly below the subject's
AnsweringPeers == fetched \ {symbol}
PeersWith(field) ==
    {p \in AnsweringPeers : ~IsNull(peerInfo[p][field]) /\ ~IsNaN(peerInfo[p][field])}
PeersBelow(field) == {p \in PeersWith(field) : RLt(peerInfo[p][field], info[field])}

\* C8, as the code ranks: for each ranked metric the percentile rank is
\* 100 x (peers with a strictly lower value) / (peers that have a value for
\* that metric), null when the subject or every peer lacks the value, and
\* every non-null rank lies in [0, 100].
C8_RankOverPeersWithValue ==
    \A i \in SuccessesOf("get_sector_valuation_multiples") :
        \A m \in DOMAIN RankedField :
            LET rank == calls[i].out.percentile_ranks[m]
                field == RankedField[m]
            IN  IF IsNull(info[field]) \/ PeersWith(field) = {}
                THEN IsNull(rank)
                ELSE /\ rank = Q(100 * Cardinality(PeersBelow(field)),
                                 Cardinality(PeersWith(field)))
                     /\ RLe(R(0), rank) /\ RLe(rank, R(100))

\* Two peers answered, one of them without a trailing P/E, and the subject
\* was ranked on P/E.
C8_Witness ==
    \E i \in SuccessesOf("get_sector_valuation_multiples") :
        /\ calls[i].out.peer_count = 2
        /\ Cardinality(PeersWith("trailingPE")) = 1
        /\ ~IsNull(calls[i].out.percentile_ranks.pe_ratio)

\* C8 as stated: every non-null rank is 100 x (peers with a strictly lower
\* value) / peer_count and lies in [0, 100].
C8_AsStated ==
    \A i \in SuccessesOf("get_sector_valuation_multiples") :
        \A m \in DOMAIN RankedField :
            LET rank == calls[i].out.percentile_ranks[m]
            IN  ~IsNull(rank) =>
                    /\ rank = Q(100 * Cardinality(PeersBelow(RankedField[m])),
                                calls[i].out.peer_count)
                    /\ RLe(R(0), rank) /\ RLe(rank, R(100))

\* C9 as stated: get_sector_valuation_multiples succeeds only when at least
\* two peers (symbols other than the subject) delivered data.
C9_TwoPeersOrFailure ==
    \A i \in SuccessesOf("get_sector_valuation_multiples") :
        Cardinality(AnsweringPeers) >= 2

\* C10 as stated: whenever the debtToEquity field is present, 0 included,
\* assess_leverage_risk succeeds and reports that value.
C10_PresentRatioSucceeds ==
    \A i \in CallsOf("assess_leverage_risk") :
        (~down /\ ~IsNull(info.debtToEquity))
            => /\ IsSuccess(calls[i].out)
               /\ calls[i].out.debt_to_equity = info.debtToEquity

\* The points the score table gives each reported tier
TierPoints == [Low |-> 0, Moderate |-> 1, High |-> 2]
StatusPoints(status) ==
    IF status = "Critical - earnings below interest" THEN 4
    ELSE IF status = "Weak - tight coverage" THEN 2
    ELSE IF status = "Adequate - comfortable margin" THEN 1
    ELSE 0
ScoreOfTiers(level, status) ==
    LET raw == 1 + (IF level = "Very High" THEN 4 ELSE TierPoints[level])
                 + StatusPoints(status)
    IN  IF raw > 10 THEN 10 ELSE raw

\* C11 as stated: in every success payload of assess_leverage_risk the risk
\* score is min(10, 1 + L + C), L being 4/2/1/0 for the reported leverage level
\* Very High/High/Moderate/Low and C being 4/2/1/0 for the reported coverage
\* status Critical/Weak/Adequate/Strong (0 when not available), so the score
\* lies in 1..10 and is a function of the two reported tiers.
C11_ScoreFromTiers ==
    \A i \in SuccessesOf("assess_leverage_risk") :
        LET a == calls[i].out.leverage_assessment
        IN  /\ a.risk_score \in 1..10
            /\ a.risk_score = ScoreOfTiers(a.level, calls[i].out.interest_coverage_status)

\* C12 as stated: whenever the interestCoverage field is present (0 and
\* negative values included), interest_coverage_status is Strong above 5,
\* Adequate in (2.5, 5], Weak in (1, 2.5] and Critical at or below 1, and it
\* is "Not available" only when the field is absent.
C12_StatusOfPresentCoverage ==
    \A i \in SuccessesOf("assess_leverage_risk") :
        LET c == info.interestCoverage
            status == calls[i].out.interest_coverage_status
        IN  IF IsNull(c) THEN status = "Not available"
            ELSE status = (IF RGt(c, R(5)) THEN "Strong - can easily service debt"
                           ELSE IF RGt(c, Q(5, 2)) THEN "Adequate - comfortable margin"
                           ELSE IF RGt(c, R(1)) THEN "Weak - tight coverage"
                           ELSE "Critical - earnings below interest")

\* The sector comparison a relative valuation of the subject rests on, and the
\* three methods' inputs: the subject's per-share driver and the median multiple
SectorComparison == get_sector_valuation_multiples(symbol, info, down, peerInfo, fetched)
MethodInputs ==
    {<<"PE-based", "trailingEps", "pe_ratio">>,
     <<"PB-based", "bookValue", "pb_ratio">>,
     <<"Forward PE-based", "forwardEps", "forward_pe">>}
PriceGiven == Truthy(Or(info.currentPrice, info.regularMarketPrice))

\* C13, as the code admits a method: given a non-zero current price and a
\* successful sector comparison, calculate_relative_valuation succeeds if and
\* only if at least one method has a positive driver and a median multiple
\* that is present and not 0; otherwise it returns the failure payload.
C13_SucceedsIffUsableMethod ==
    \A i \in CallsOf("calculate_relative_valuation") :
        (~down /\ PriceGiven /\ IsSuccess(SectorComparison)) =>
            /\ IsSuccess(calls[i].out) <=>
                  \E m \in MethodInputs :
                      /\ ~IsNull(info[m[2]]) /\ RGt(info[m[2]], R(0))
                      /\ ~IsNull(SectorComparison.sector_medians[m[3]])
                      /\ SectorComparison.sector_medians[m[3]] # R(0)
            /\ IsSuccess(calls[i].out) \/ IsFailure(calls[i].out)

\* A negative trailing EPS with a median P/E, no other method: refused.
C13_Witness ==
    \E i \in FailuresOf("calculate_relative_valuation") :
        /\ ~down /\ PriceGiven /\ IsSuccess(SectorComparison)
        /\ ~IsNull(info.trailingEps) /\ RLt(info.trailingEps, R(0))
        /\ ~IsNull(SectorComparison.sector_medians.pe_ratio)

\* C13 as stated: given a current price and a successful sector comparison,
\* the call succeeds if and only if some method has both inputs present.
C13_AsStated ==
    \A i \in CallsOf("calculate_relative_valuation") :
        (~down /\ PriceGiven /\ IsSuccess(SectorComparison)) =>
            (IsSuccess(calls[i].out) <=>
                \E m \in MethodInputs :
                    /\ ~IsNull(info[m[2]])
                    /\ ~IsNull(SectorComparison.sector_medians[m[3]]))

\* The snapshot fields behind each valuation method: the subject's per-share
\* driver and the multiple whose peer median it is applied to
MethodFields ==
    [m \in {"PE-based", "PB-based", "Forward PE-based"} |->
        IF m = "PE-based" THEN <<"trailingEps", "trailingPE">>
        ELSE IF m = "PB-based" THEN <<"bookValue", "priceToBook">>
        ELSE <<"forwardEps", "forwardPE">>]
\* The values the answering peers (the subject left out) have for a field
PeerValues(field) ==
    Valid(Column(SelectSeq([k \in 1..Len(_get_peer_stocks(symbol, MaxPeers)) |->
                               [symbol |-> _get_peer_stocks(symbol, MaxPeers)[k],
                                value |-> peerInfo[_get_peer_stocks(symbol, MaxPeers)[k]][field]]],
                           LAMBDA p : p.symbol \in fetched), "value"))

\* C14: each fair value listed by calculate_relative_valuation is the
\* subject's per-share driver times the median of the answering peers' values
\* of that method's multiple, the subject's own multiple left out of the
\* median; trailing EPS 100 with a peer median P/E of 20 lists exactly 2000.
C14_FairValueIsDriverTimesPeerMedian ==
    \A i \in SuccessesOf("calculate_relative_valuation") :
        \A k \in 1..Len(calls[i].out.valuation_methods) :
            LET listed == calls[i].out.valuation_methods[k]
                fields == MethodFields[listed.method]
            IN  /\ PeerValues(fields[2]) # <<>>
                /\ listed.fair_value =
                      RMul(info[fields[1]], median(PeerValues(fields[2])))
                /\ (/\ listed.method = "PE-based" /\ info.trailingEps = R(100)
                    /\ median(PeerValues("trailingPE")) = R(20))
                      => listed.fair_value = R(2000)

\* Trailing EPS 100, both peers at P/E 20 and the subject at another P/E:
\* the PE-based fair value listed is 2000.
C14_Witness ==
    \E i \in SuccessesOf("calculate_relative_valuation") :
        /\ info.trailingEps = R(100) /\ info.trailingPE # R(20)
        /\ PeerValues("trailingPE") = <<R(20), R(20)>>
        /\ calls[i].out.valuation_methods[1] =
              [method |-> "PE-based", fair_value |-> R(2000)]

\* C15 as stated: in every success payload of build_scenario_valuations the
\* risk-reward ratio is bull upside% / |bear upside%|, null only when the bear
\* upside is 0, and the recommendation is "Attractive" for a ratio above 2,
\* "Neutral" for a ratio in (1, 2] and "Unfavorable" for every other ratio,
\* 0 and negative ratios included.
C15_RecommendationOfRatio ==
    \A i \in SuccessesOf("build_scenario_valuations") :
        LET out == calls[i].out
            bull == out.scenarios.bull.upside_pct
            bear == out.scenarios.bear.upside_pct
            ratio == out.risk_reward_ratio
        IN  IF bear = R(0)
            THEN IsNull(ratio)
            ELSE /\ ratio = RDiv(bull, IF RLt(bear, R(0)) THEN RNeg(bear) ELSE bear)
                 /\ out.recommendation =
                       (IF RGt(ratio, R(2)) THEN "Attractive"
                        ELSE IF RGt(ratio, R(1)) THEN "Neutral"
                        ELSE "Unfavorable")

\* The factors a driver analysis lists
Factors(drivers) == {drivers[k].factor : k \in 1..Len(drivers)}

\* C16 as stated: in every success payload of identify_multiple_drivers,
\* "Below-average ROE" is listed for every ROE percentile below 40 (0
\* included), "Valuation premium not justified by quality" is listed whenever
\* the P/E percentile is above 70 and the ROE percentile below 50, and
\* "Superior ROE vs peers" is listed exactly when the ROE percentile is above 60.
C16_DriversOfPercentiles ==
    \A i \in SuccessesOf("identify_multiple_drivers") :
        LET roe == calls[i].out.quality_metrics.roe_percentile
            pe == calls[i].out.quality_metrics.pe_percentile
            risks == Factors(calls[i].out.compression_risks)
        IN  (~IsNull(roe) /\ ~IsNull(pe)) =>
              /\ RLt(roe, R(40)) => "Below-average ROE" \in risks
              /\ (RGt(pe, R(70)) /\ RLt(roe, R(50)))
                    => "Valuation premium not justified by quality" \in risks
              /\ "Superior ROE vs peers" \in Factors(calls[i].out.expansion_drivers)
                    <=> RGt(roe, R(60))

\* Bars with positive prices and low <= close <= high
PositiveBars == \A k \in 1..Len(hist) :
                    0 < hist[k].low /\ hist[k].low <= hist[k].close
                                    /\ hist[k].close <= hist[k].high
StopLevels == {"conservative", "moderate", "aggressive"}

\* C17, as the code places the stops: for every accepted history whose bars
\* have positive prices and low <= close <= high, each of the three stop
\* prices is at or below the current price (every pct_below is <= 0), and
\* all three equal the current price when the ATR is 0.
C17_StopsNotAbovePrice ==
    \A i \in SuccessesOf("calculate_stop_loss_levels") :
        PositiveBars =>
            /\ \A l \in StopLevels :
                  /\ RLe(StopPrice(i, l), calls[i].out.current_price)
                  /\ RLe(calls[i].out.stop_loss_levels[l].pct_below, R(0))
            /\ calls[i].out.atr = R(0) =>
                  \A l \in StopLevels : StopPrice(i, l) = calls[i].out.current_price

\* An accepted history of positive bars with a positive ATR: all three stops
\* lie strictly below the current price.
C17_Witness ==
    \E i \in SuccessesOf("calculate_stop_loss_levels") :
        /\ PositiveBars /\ Len(hist) >= 50 /\ RGt(calls[i].out.atr, R(0))
        /\ \A l \in StopLevels :
              RLt(calls[i].out.stop_loss_levels[l].pct_below, R(0))

\* C17 as stated: every pct_below is negative.
C17_AsStated ==
    \A i \in SuccessesOf("calculate_stop_loss_levels") :
        PositiveBars =>
            \A l \in StopLevels :
                RLt(calls[i].out.stop_loss_levels[l].pct_below, R(0))

\* The four named scenarios of a scenario-risk payload
NamedScenarios == {"rate_hike", "commodity_shock", "demand_shock", "sector_downturn"}

\* C18: in every success payload of model_scenario_risks the four named
\* scenarios carry the probabilities 0.15, 0.20, 0.10 and 0.25 whatever the
\* history and beta, the worst case carries 0.05, and the four sum to at
\* most 1.
C18_FixedProbabilities ==
    \A i \in SuccessesOf("model_scenario_risks") :
        LET sc == calls[i].out.scenarios
        IN  /\ DOMAIN sc = NamedScenarios
            /\ sc.rate_hike.probability = Q(15, 100)
            /\ sc.commodity_shock.probability = Q(20, 100)
            /\ sc.demand_shock.probability = Q(10, 100)
            /\ sc.sector_downturn.probability = Q(25, 100)
            /\ calls[i].out.worst_case.probability = Q(5, 100)
            /\ RLe(RAdd(RAdd(sc.rate_hike.probability, sc.commodity_shock.probability),
                        RAdd(sc.demand_shock.probability, sc.sector_downturn.probability)),
                   R(1))

\* A high-beta subject on a patterned year: the beta-scaled impact differs
\* from the market's, the probabilities are the table's.
C18_Witness ==
    \E i \in SuccessesOf("model_scenario_risks") :
        /\ info.beta = R(2) /\ Len(hist) = 60
        /\ calls[i].out.scenarios.rate_hike.estimated_impact_pct = R(-20)
        /\ calls[i].out.scenarios.rate_hike.probability = Q(15, 100)

\* The bare words json.dumps writes for non-finite floats
NonFiniteWords == {"NaN", "Infinity", "-Infinity"}
IsNonFiniteToken(tok) == tok.t = "lit" /\ tok.text \in NonFiniteWords
RECURSIVE HasNonFinite(_)
\* A payload with a non-finite float somewhere inside it
HasNonFinite(obj) ==
    \/ obj.kind = "float" /\ (IsNaN(obj.value) \/ IsInf(obj.value))
    \/ \E k \in 1..Len(obj.items) : HasNonFinite(obj.items[k].val)

\* C19: the text _safe_json_dumps emits for a payload of dicts and lists
\* contains none of the words NaN, Infinity, -Infinity, and it is the text
\* json.dumps would emit for the payload as given with exactly those words
\* replaced by null: every non-finite float at any depth becomes null and
\* every other value is written unchanged.
C19_NoNonFiniteInText ==
    \A i \in CallsOf("_safe_json_dumps") :
        LET plain == json_dumps(calls[i].args[1])
            text == calls[i].out
        IN  /\ \A k \in 1..Len(text) : ~IsNonFiniteToken(text[k])
            /\ Len(text) = Len(plain)
            /\ \A k \in 1..Len(text) :
                  text[k] = IF IsNonFiniteToken(plain[k]) THEN Lit("null") ELSE plain[k]

\* A NaN inside a list inside a dict inside the payload, written as null
\* beside a string that spells NaN and stays.
C19_Witness ==
    \E i \in CallsOf("_safe_json_dumps") :
        /\ calls[i].args[1] =
              PyDict(<<Item("k", PyDict(<<Item("k", PyList(<<PyStr("NaN"), PyFloat(NaN)>>))>>))>>)
        /\ calls[i].out =
              <<Punct("{"), Tok("str", "k", Null), Punct(":"),
                Punct("{"), Tok("str", "k", Null), Punct(":"),
                Punct("["), Tok("str", "NaN", Null), Punct(","), Lit("null"), Punct("]"),
                Punct("}"), Punct("}")>>

\* The drawdown series of the claim for the history on hand: C the cumulative
\* product of (1 + daily return), M(k) the largest of C[1..k], and
\* (C[k] - M(k)) / M(k) at every position k of the return series.
DrawdownSeries ==
    Bind(cumprod(Returns(hist)), LAMBDA C :
        SubSeq([k \in 1..Len(C) |->
                   RDiv(RSub(C[k], MaxRange(C, 1, k)), MaxRange(C, 1, k))],
               1, Len(C)))
PositiveCloses == \A k \in 1..Len(hist) : hist[k].close > 0

\* C20: for a history of positive closes that analyze_downside_metrics
\* accepts, max_drawdown.percentage is at most 0 and is 100 times the
\* minimum of (C - M) / M over the return window, and trough_date is the
\* date of a position where that minimum is attained (position k of the
\* return series carries the date of bar k + 1).
C20_MaxDrawdownIsWindowMinimum ==
    \A i \in SuccessesOf("analyze_downside_metrics") :
        PositiveCloses =>
            Bind(DrawdownSeries, LAMBDA D :
                LET dd == calls[i].out.max_drawdown
                IN  /\ RLe(dd.percentage, R(0))
                    /\ \E k \in 1..Len(D) :
                          /\ dd.trough_date = strftime(k + 1)
                          /\ dd.percentage = RMul(D[k], R(100))
                          /\ \A j \in 1..Len(D) : RLe(D[k], D[j]))

\* A 100-bar history at 20 that halves at bar 51, climbs to 25 at bar 81 and
\* ends at 16: the later fall from 25 is shallower, and the report is -50%
\* with its trough on bar 51.
C20_Witness ==
    \E i \in SuccessesOf("analyze_downside_metrics") :
        /\ Len(hist) = 100 /\ PositiveCloses
        /\ hist[51].close = 10 /\ hist[81].close = 25 /\ hist[100].close = 16
        /\ calls[i].out.max_drawdown.percentage = R(-50)
        /\ calls[i].out.max_drawdown.trough_date = strftime(51)

\* The keys that carry a fair-value range or a driver list
ResultKeys == {"fair_value_range", "valuation_methods", "expansion_drivers",
               "compression_risks"}

\* C21: whenever get_sector_valuation_multiples answers the failure payload
\* for the symbol and data on hand, calculate_relative_valuation and
\* identify_multiple_drivers answer the failure payload too (an error string,
\* DATA_UNAVAILABLE true) and carry no fair-value range and no driver list.
C21_DependantsFailWithSector ==
    \A i \in CallsOf("calculate_relative_valuation")
                 \cup CallsOf("identify_multiple_drivers") :
        IsFailure(SectorComparison) =>
            /\ IsFailure(calls[i].out)
            /\ calls[i].out.DATA_UNAVAILABLE = TRUE
            /\ DOMAIN calls[i].out \cap ResultKeys = {}

\* A symbol outside the taxonomy, with the data source answering: the driver
\* identification refuses because the sector comparison refused.
C21_Witness ==
    \E i \in FailuresOf("identify_multiple_drivers") :
        /\ ~down /\ _get_sector_for_symbol(symbol) = ""
        /\ IsFailure(SectorComparison)
        /\ calls[i].out = Failure("Cannot analyze without sector comparison")

\* The points of each scored field other than the price, which is worth 10
\* once, and the one-month history, worth 5
FieldPoints ==
    [marketCap |-> 10, symbol |-> 10, trailingPE |-> 6, forwardPE |-> 4,
     priceToBook |-> 6, priceToSalesTrailing12Months |-> 4, enterpriseValue |-> 5,
     enterpriseToEbitda |-> 5, returnOnEquity |-> 5, returnOnAssets |-> 5,
     profitMargins |-> 5, debtToEquity |-> 5, currentRatio |-> 5]
\* A field counts as available when it is given (and, for the critical and
\* valuation fields, not zero)
FieldAvailable(f) ==
    IF f = "symbol" THEN info.symbol # ""
    ELSE IF f \in {"returnOnEquity", "returnOnAssets", "profitMargins",
                   "debtToEquity", "currentRatio"}
    THEN ~IsNull(info[f])
    ELSE ~IsNull(info[f]) /\ info[f] # R(0)
PriceAvailable == FieldAvailable("currentPrice") \/ FieldAvailable("regularMarketPrice")
RECURSIVE PointsOf(_)
PointsOf(fields) ==
    IF fields = {} THEN 0
    ELSE LET f == CHOOSE g \in fields : TRUE
         IN  FieldPoints[f] + PointsOf(fields \ {f})
AvailableFields == {f \in DOMAIN FieldPoints : FieldAvailable(f)}

\* C22 as stated: quality_score lies in 0..max_score with max_score 100; it is
\* the sum of the points of the available fields, the price counting 10 once
\* and a served one-month history of at least 10 bars counting 5; it is 0
\* when nothing is available; and it equals max_score when every scored
\* field is available together with at least 10 bars of history.
C22_ScoreOnDocumentedScale ==
    \A i \in CallsOf("calculate_data_quality_score") :
        LET out == calls[i].out
            history == ~calls[i].args[1] /\ Len(hist) >= 10
        IN  /\ out.max_score = 100
            /\ out.quality_score \in 0..out.max_score
            /\ ~down =>
                  /\ out.quality_score = PointsOf(AvailableFields)
                                          + (IF PriceAvailable THEN 10 ELSE 0)
                                          + (IF history THEN 5 ELSE 0)
                  /\ (AvailableFields = {} /\ ~PriceAvailable /\ ~history)
                        => out.quality_score = 0
                  /\ (AvailableFields = DOMAIN FieldPoints /\ PriceAvailable /\ history)
                        => out.quality_score = out.max_score

\* The lowest low of the last n bars of the history on hand
LowOfLast(n) ==
    LET from == IF Len(hist) > n THEN Len(hist) - n + 1 ELSE 1
        lows == {hist[k].low : k \in from..Len(hist)}
    IN  CHOOSE m \in lows : \A x \in lows : m <= x
Higher(a, b) == IF RGe(a, b) THEN a ELSE b

\* C23: for every accepted history whose current price P, ATR(14) A,
\* 3-month low L3 (last 63 bars) and 1-month low L1 (last 21 bars) are all
\* positive, the conservative price is max(P - 3A, L3), the moderate price
\* is max(P - 2A, L1) and the aggressive price is P - 1.5A with no support
\* override; the payload reports P, A, L3 and L1.
C23_StopsFromAtrAndLows ==
    \A i \in SuccessesOf("calculate_stop_loss_levels") :
        LET P == R(hist[Len(hist)].close)
            A == calls[i].out.atr
            L3 == R(LowOfLast(63))
            L1 == R(LowOfLast(21))
        IN  (RGt(P, R(0)) /\ ~IsNull(A) /\ RGt(A, R(0))
             /\ RGt(L3, R(0)) /\ RGt(L1, R(0))) =>
                /\ calls[i].out.current_price = P
                /\ calls[i].out.support_levels["3_month_low"] = L3
                /\ calls[i].out.support_levels["1_month_low"] = L1
                /\ StopPrice(i, "conservative") = Higher(RSub(P, RMul(R(3), A)), L3)
                /\ StopPrice(i, "moderate") = Higher(RSub(P, RMul(R(2), A)), L1)
                /\ StopPrice(i, "aggressive") = RSub(P, RMul(Q(3, 2), A))

\* Price 100 and ATR 5: the aggressive stop is 92.5 although the 1-month low
\* 98 lies above it, and the moderate and conservative stops are that low.
C23_Witness ==
    \E i \in SuccessesOf("calculate_stop_loss_levels") :
        /\ calls[i].out.current_price = R(100) /\ calls[i].out.atr = R(5)
        /\ calls[i].out.support_levels["1_month_low"] = R(98)
        /\ StopPrice(i, "aggressive") = Q(185, 2)
        /\ StopPrice(i, "moderate") = R(98)
        /\ StopPrice(i, "conservative") = R(98)

\* target = P * (1 + impact / 100) for a reported impact: a rational, or the
\* closed form <<b, c, r>> = b + c * sqrt(r) of the demand shock, or null
TargetFollows(P, impact, target) ==
    IF IsNull(impact) THEN IsNull(target)
    ELSE IF Len(impact) = 3
    THEN target = <<RMul(P, RAdd(R(1), RDiv(impact[1], R(100)))),
                    RMul(P, RDiv(impact[2], R(100))), impact[3]>>
    ELSE target = RMul(P, RAdd(R(1), RDiv(impact, R(100))))

\* The beta of the claim: the snapshot's beta, 1 when the snapshot has none
\* (null in the payload when it is not a number)
SnapshotBeta == IF IsNull(info.beta) THEN R(1) ELSE _sanitize(info.beta)

\* C24 as stated: in every success payload of model_scenario_risks, with
\* beta the snapshot's beta (1 when missing) and V the reported annual
\* volatility in percent: rate_hike = -10 * beta, commodity_shock = -8 if
\* beta > 1 else -5, demand_shock = -15 * (1 + (V / 100 - 0.25)),
\* sector_downturn = -12, worst case = -30, and each of the five target
\* prices is current price * (1 + impact / 100).  An undefined beta or
\* volatility is reported as null together with the figures derived from it.
C24_ImpactsFollowTable ==
    \A i \in SuccessesOf("model_scenario_risks") :
        LET o == calls[i].out
            sc == o.scenarios
            P == o.current_price
            demand == sc.demand_shock.estimated_impact_pct
        IN  /\ o.beta = SnapshotBeta
            /\ sc.rate_hike.estimated_impact_pct =
                  (IF IsNull(SnapshotBeta) THEN Null ELSE RMul(R(-10), SnapshotBeta))
            /\ sc.commodity_shock.estimated_impact_pct =
                  (IF ~IsNull(SnapshotBeta) /\ RGt(SnapshotBeta, R(1))
                   THEN R(-8) ELSE R(-5))
            /\ IF IsNull(o.annual_volatility) THEN IsNull(demand)
               ELSE /\ demand[1] = RMul(R(-15), RSub(R(1), Q(1, 4)))
                    /\ demand[2] = R(-15)
                    /\ o.annual_volatility = Root(1, RMul(demand[3], R(100 * 100)))
            /\ sc.sector_downturn.estimated_impact_pct = R(-12)
            /\ o.worst_case.impact_pct = R(-30)
            /\ \A n \in NamedScenarios :
                  TargetFollows(P, sc[n].estimated_impact_pct, sc[n].target_price)
            /\ TargetFollows(P, o.worst_case.impact_pct, o.worst_case.target_price)

\* The bar a reported date belongs to
BarOfDate(text) == CHOOSE k \in 1..Len(hist) : strftime(k) = text

\* C25: in every success payload of analyze_downside_metrics, recovery_days
\* is null exactly when recovery_date is "Not recovered"; and when the
\* maximum drawdown is negative, peak_date is the first date of the highest
\* close of the window up to the trough, recovery_date is the first date
\* strictly after the trough date whose close is at least the close at the
\* peak date, with recovery_days the calendar days from the trough to it, or
\* "Not recovered" with null days when the window holds no such date.
C25_RecoveryAfterTrough ==
    \A i \in SuccessesOf("analyze_downside_metrics") :
        LET dd == calls[i].out.max_drawdown
            trough == BarOfDate(dd.trough_date)
            peak == BarOfDate(dd.peak_date)
            later == {j \in (trough + 1)..Len(hist) :
                         hist[j].close >= hist[peak].close}
            first == CHOOSE j \in later : \A k \in later : j <= k
        IN  /\ IsNull(dd.recovery_days) <=> dd.recovery_date = "Not recovered"
            /\ RLt(dd.percentage, R(0)) =>
                  /\ peak \in 2..trough
                  /\ \A j \in 2..trough : hist[j].close <= hist[peak].close
                  /\ \A j \in 2..(peak - 1) : hist[j].close < hist[peak].close
                  /\ IF later = {}
                     THEN dd.recovery_date = "Not recovered" /\ IsNull(dd.recovery_days)
                     ELSE /\ dd.recovery_date = strftime(first)
                          /\ dd.recovery_days = R(DateOf(first) - DateOf(trough))

\* A fall from a peak of 25 on a Friday bar that lasts until the close
\* returns to 25 on the last bar: the trough is the following Monday bar 82,
\* the recovery is bar 100, and the 18 bars between them span 24 days.
C25_Witness ==
    \E i \in SuccessesOf("analyze_downside_metrics") :
        LET dd == calls[i].out.max_drawdown
        IN  /\ Len(hist) = 100 /\ hist[81].close = 25 /\ hist[100].close = 25
            /\ dd.percentage = R(-20)
            /\ dd.peak_date = strftime(81) /\ dd.trough_date = strftime(82)
            /\ dd.recovery_date = strftime(100)
            /\ dd.recovery_days = R(24)

C27_AbsentFigureKeepsSuccess ==
    \A i \in CallsOf("get_sector_valuation_multiples") :
        (/\ ~down /\ _get_sector_for_symbol(symbol) # "" /\ AnsweringPeers # {}
         /\ (IsNull(info.trailingPE) \/ IsNull(info.returnOnEquity))) =>
            /\ IsSuccess(calls[i].out)
            /\ IsNull(info.trailingPE) =>
                  /\ IsNull(calls[i].out.percentile_ranks.pe_ratio)
                  /\ calls[i].out.interpretation.relative_valuation = "In-line with sector"
            /\ IsNull(info.returnOnEquity) =>
                  /\ IsNull(calls[i].out.percentile_ranks.roe)
                  /\ calls[i].out.interpretation.relative_quality = "Average quality"

\* C28 as stated: in every success payload of analyze_downside_metrics on
\* positive closes, max_drawdown.percentage <= current_drawdown <= 0, also
\* when the highest close is the first bar of the window.
C28_MaxCoversCurrent ==
    \A i \in SuccessesOf("analyze_downside_metrics") :
        PositiveCloses =>
            /\ RLe(calls[i].out.max_drawdown.percentage, calls[i].out.current_drawdown)
            /\ RLe(calls[i].out.current_drawdown, R(0))

\* C29 as stated: whatever the analysis type, the sequential task list of a
\* created crew starts with the market-data task, then the guardian task,
\* ends with the report task, and every task named in the context of a
\* scheduled task is scheduled earlier in the list.
C29_ContextScheduledEarlier ==
    crew # NoCrew =>
        LET tasks == crew.tasks
        IN  /\ tasks[1] = "market_data_task" /\ tasks[2] = "guardian_task"
            /\ tasks[Len(tasks)] = "report_task"
            /\ \A k \in 1..Len(tasks) :
                  \A c \in 1..Len(TaskContext[tasks[k]]) :
                      \E j \in 1..(k - 1) : tasks[j] = TaskContext[tasks[k]][c]

\* C30: in every success payload of build_scenario_valuations for a
\* snapshot with positive trailing EPS and positive trailing P/E, the target
\* prices are 0.765, 1.05 and 1.32 times EPS * P/E for bear, base and bull,
\* hence bear < base < bull, the upside percentages are ordered the same
\* way, and the probabilities 0.25, 0.50, 0.25 sum to exactly 1.
C30_ScenariosOrdered ==
    \A i \in SuccessesOf("build_scenario_valuations") :
        (~IsNull(info.trailingEps) /\ RGt(info.trailingEps, R(0))
         /\ ~IsNull(info.trailingPE) /\ RGt(info.trailingPE, R(0))) =>
            LET sc == calls[i].out.scenarios
                value == RMul(info.trailingEps, info.trailingPE)
            IN  /\ sc.bear.target_price = RMul(Q(765, 1000), value)
                /\ sc.base.target_price = RMul(Q(105, 100), value)
                /\ sc.bull.target_price = RMul(Q(132, 100), value)
                /\ RLt(sc.bear.target_price, sc.base.target_price)
                /\ RLt(sc.base.target_price, sc.bull.target_price)
                /\ RGt(sc.bull.upside_pct, sc.base.upside_pct)
                /\ RGt(sc.base.upside_pct, sc.bear.upside_pct)
                /\ sc.bull.assumptions.probability = Q(25, 100)
                /\ sc.base.assumptions.probability = Q(50, 100)
                /\ sc.bear.assumptions.probability = Q(25, 100)
                /\ RAdd(RAdd(sc.bull.assumptions.probability,
                             sc.base.assumptions.probability),
                        sc.bear.assumptions.probability) = R(1)

\* EPS 10 at a P/E of 10 and a price of 132: the targets are 76.5, 105 and
\* 132, so the bull case has no upside and the other two lie below the price.
C30_Witness ==
    \E i \in SuccessesOf("build_scenario_valuations") :
        LET sc == calls[i].out.scenarios
        IN  /\ info.trailingEps = R(10) /\ info.trailingPE = R(10)
            /\ calls[i].out.current_price = R(132)
            /\ sc.bear.target_price = Q(153, 2)
            /\ sc.base.target_price = R(105)
            /\ sc.bull.target_price = R(132)
            /\ sc.bull.upside_pct = R(0)
            /\ RLt(sc.base.upside_pct, R(0))

====
